---- MODULE Spec2Model ----
(***************************************************************************)
(* A2A server runtime: the push notification config store, the default    *)
(* request handler and the gRPC capability gate, as state machines.        *)
(*                                                                         *)
(* Option<T> values are sequences of length 0 or 1: None is <<>> and       *)
(* Some(v) is <<v>>.  A HashMap is a function whose DOMAIN is its key set. *)
(***************************************************************************)
EXTENDS Naturals, Sequences, FiniteSets, TLC

VARIABLES
    agent_card,   \* GRPCHandler.agent_card: the capability fields the gate reads
    handler,      \* DefaultRequestHandler: which optional subsystems it holds
    tasks,        \* the task store: id -> Task
    configs,      \* InMemoryPushNotificationConfigStore.configs: task id -> Vec<config>
    uuid_ctr,     \* how many v4 UUIDs have been generated so far
    clock,        \* the wall clock read by chrono::Utc::now()
    stream,       \* the event stream a message/stream call returned, as far as it is consumed
    last,         \* the most recent call: its name, arguments and result
    prev,         \* the call before it (kept for the config store's callers)
    sending,      \* the send_notification call in progress: its dispatch futures
    rows,         \* the table of a SqliteTaskStore: its rows, in rowid order
    running       \* the on_cancel_task call suspended between its get and its save

vars ==
    <<agent_card, handler, tasks, configs, uuid_ctr, clock, stream, last, prev, sending,
      rows, running>>

(***************************************************************************)
(* Bounds of the model.                                                    *)
(***************************************************************************)
\* longest config list a task may grow to (appends beyond it are not explored)
MaxConfigs == 2
\* UUIDs that may be generated in one behaviour
MaxUuid == 2
\* largest wall-clock reading
MaxClock == 1

(***************************************************************************)
(* Option and map helpers.                                                 *)
(***************************************************************************)
None == <<>>
Some(v) == <<v>>
IsSome(o) == o /= <<>>
Unwrap(o) == o[1]
UnwrapOr(o, d) == IF o = <<>> THEN d ELSE o[1]
Opt(S) == {None} \cup {Some(v) : v \in S}

EmptyMap == [k \in {} |-> <<>>]
MapGet(m, k) == IF k \in DOMAIN m THEN Some(m[k]) ELSE None
MapInsert(m, k, v) == [x \in (DOMAIN m) \cup {k} |-> IF x = k THEN v ELSE m[x]]
MapRemove(m, k) == [x \in (DOMAIN m) \ {k} |-> m[x]]

(***************************************************************************)
(* Input domains.                                                          *)
(***************************************************************************)
TaskIds == {"t1", "t2"}
ConfigIds == {"a", "b"}

\* PushNotificationConfig { id, url, token, authentication }
PushNotificationConfig(id, url, token) ==
    [id |-> id, url |-> url, token |-> token, authentication |-> None]
\* the configs callers supply: one without an id, two that share id "a" and differ
\* in url and token, one with id "b"
AllConfigs ==
    { PushNotificationConfig(None, "http://h1/", None),
      PushNotificationConfig(Some("a"), "http://h1/", Some("tok")),
      PushNotificationConfig(Some("a"), "http://h2/", None),
      PushNotificationConfig(Some("b"), "http://h2/", Some("tok")) }

\* AgentCard, with the fields the capability gate reads (each an Option<bool>)
AgentCard(streaming, push_notifications, extended) ==
    [capabilities |-> [streaming |-> streaming,
                       push_notifications |-> push_notifications],
     supports_authenticated_extended_card |-> extended]

\* the record kept of a call; every call fills the fields it has
NoCall ==
    [op |-> "new", task_id |-> None, config |-> None, config_id |-> None,
     message |-> None, fault |-> "none", err |-> "", errmsg |-> "", task |-> None,
     cfgs |-> <<>>, events |-> <<>>, posts |-> <<>>, card |-> None,
     invoked |-> FALSE, trace |-> <<>>, listed |-> <<>>, history_length |-> None,
     auth |-> None]

\* no send_notification call has been made
NoSend == [active |-> FALSE, returned |-> FALSE, task |-> None, dispatches |-> <<>>,
           log |-> <<>>]

\* no on_cancel_task call is suspended
NoRunning == [active |-> FALSE, id |-> "", task |-> None, w |-> <<>>]

\* no stream has been returned, or the one returned was dropped
NoStream ==
    [open |-> FALSE, pending |-> <<>>, task |-> None, sender |-> FALSE, log |-> <<>>]

(***************************************************************************)
(* InMemoryPushNotificationConfigStore                                     *)
(***************************************************************************)
\* task_configs.iter().position(|c| c.id.as_ref() == Some(config_id))
position(task_configs, config_id) ==
    LET hits == {i \in 1..Len(task_configs) : task_configs[i].id = Some(config_id)}
    IN  IF hits = {} THEN None
        ELSE Some(CHOOSE i \in hits : \A j \in hits : i <= j)

\* a set_info that never looks for an existing id
set_info_always_push(cfgs, task_id, config) ==
    MapInsert(cfgs, task_id, Append(UnwrapOr(MapGet(cfgs, task_id), <<>>), config))

\* a set_info that replaces in place and then falls through to the push
set_info_no_return(cfgs, task_id, config) ==
    LET task_configs == UnwrapOr(MapGet(cfgs, task_id), <<>>)
        pos == IF IsSome(config.id) THEN position(task_configs, Unwrap(config.id))
               ELSE None
        replaced == IF IsSome(pos) THEN [task_configs EXCEPT ![Unwrap(pos)] = config]
                    ELSE task_configs
    IN  MapInsert(cfgs, task_id, Append(replaced, config))

\* a set_info that replaces by removing the old config and pushing the new one
set_info_moves_to_end(cfgs, task_id, config) ==
    LET task_configs == UnwrapOr(MapGet(cfgs, task_id), <<>>)
        keep(c) == ~(IsSome(config.id) /\ c.id = config.id)
    IN  MapInsert(cfgs, task_id, Append(SelectSeq(task_configs, keep), config))

\* set_info: replace in place the first config with the same id, else push
set_info(cfgs, task_id, config) ==
    LET task_configs == UnwrapOr(MapGet(cfgs, task_id), <<>>)
        pos == IF IsSome(config.id) THEN position(task_configs, Unwrap(config.id))
               ELSE None
    IN  IF IsSome(pos)
        THEN MapInsert(cfgs, task_id, [task_configs EXCEPT ![Unwrap(pos)] = config])
        ELSE MapInsert(cfgs, task_id, Append(task_configs, config))

\* get_info: configs.get(task_id).cloned().unwrap_or_default()
get_info(cfgs, task_id) == UnwrapOr(MapGet(cfgs, task_id), <<>>)

\* a delete_info whose None branch drops only the configs that carry an id
delete_info_keep_anonymous(cfgs, task_id, config_id) ==
    IF task_id \in DOMAIN cfgs
    THEN LET keep(c) == IF IsSome(config_id) THEN c.id /= config_id ELSE c.id = None
         IN  [cfgs EXCEPT ![task_id] = SelectSeq(cfgs[task_id], keep)]
    ELSE cfgs

\* a delete_info whose retain also drops the configs that carry no id
delete_info_drops_anonymous(cfgs, task_id, config_id) ==
    IF IsSome(config_id)
    THEN IF task_id \in DOMAIN cfgs
         THEN LET keep(c) == IsSome(c.id) /\ c.id /= config_id
              IN  [cfgs EXCEPT ![task_id] = SelectSeq(cfgs[task_id], keep)]
         ELSE cfgs
    ELSE MapRemove(cfgs, task_id)

\* delete_info: with an id, Vec::retain (SelectSeq) the configs whose id differs; without, remove the key
delete_info(cfgs, task_id, config_id) ==
    IF IsSome(config_id)
    THEN IF task_id \in DOMAIN cfgs
         THEN LET keep(c) == c.id /= config_id
              IN  [cfgs EXCEPT ![task_id] = SelectSeq(cfgs[task_id], keep)]
         ELSE cfgs
    ELSE MapRemove(cfgs, task_id)

\* would set_info(task_id, config) lengthen the task's list beyond the model's bound?
WithinBound(cfgs, task_id, config) ==
    Len(get_info(set_info(cfgs, task_id, config), task_id)) <= MaxConfigs

(***************************************************************************)
(* The store on its own: callers invoke set_info, get_info and delete_info *)
(* one after the other (each call holds the RwLock for its whole body).    *)
(***************************************************************************)
StoreUnchanged ==
    UNCHANGED <<agent_card, handler, tasks, uuid_ctr, clock, stream, sending, rows, running>>

InitStore ==
    /\ agent_card = AgentCard(None, None, None)
    /\ handler = [push_config_store |-> TRUE, push_sender |-> FALSE]
    /\ tasks = EmptyMap
    /\ configs = EmptyMap
    /\ uuid_ctr = 0
    /\ clock = 0
    /\ stream = NoStream
    /\ last = NoCall
    /\ prev = NoCall
    /\ sending = NoSend
    /\ rows = <<>>
    /\ running = NoRunning

SetInfoOf(Ids, Cfgs) ==
    \E task_id \in Ids, config \in Cfgs :
        /\ WithinBound(configs, task_id, config)
        /\ configs' = set_info(configs, task_id, config)
        /\ last' = [NoCall EXCEPT !.op = "set_info", !.task_id = Some(task_id),
                                  !.config = Some(config)]
        /\ prev' = last
        /\ StoreUnchanged

SetInfo == SetInfoOf(TaskIds, AllConfigs)

GetInfo ==
    \E task_id \in TaskIds :
        /\ last' = [NoCall EXCEPT !.op = "get_info", !.task_id = Some(task_id),
                                  !.cfgs = get_info(configs, task_id)]
        /\ prev' = last
        /\ UNCHANGED configs
        /\ StoreUnchanged

DeleteInfo ==
    \E task_id \in TaskIds, config_id \in Opt(ConfigIds) :
        /\ configs' = delete_info(configs, task_id, config_id)
        /\ last' = [NoCall EXCEPT !.op = "delete_info", !.task_id = Some(task_id),
                                  !.config_id = config_id]
        /\ prev' = last
        /\ StoreUnchanged

NextStore == SetInfo \/ GetInfo \/ DeleteInfo

SpecStore == InitStore /\ [][NextStore]_vars

\* the positions of task_id's list that hold a config with this id
WithId(cfgs, task_id, id) ==
    {i \in 1..Len(get_info(cfgs, task_id)) : get_info(cfgs, task_id)[i].id = id}

\* the last two calls were set_info on one task with one id and different configs
SetTwiceSameId ==
    /\ prev.op = "set_info" /\ last.op = "set_info"
    /\ prev.task_id = last.task_id
    /\ IsSome(Unwrap(last.config).id)
    /\ Unwrap(prev.config).id = Unwrap(last.config).id
    /\ prev.config /= last.config

\* C8: after set_info(tid, c1) and then set_info(tid, c2) with c1.id = c2.id = X and
\* other fields differing, get_info(tid) holds exactly one config with id X, and it
\* is c2.
C8_SetByIdReplacement ==
    SetTwiceSameId =>
        LET tid == Unwrap(last.task_id)
            c2 == Unwrap(last.config)
            hits == WithId(configs, tid, c2.id)
        IN  /\ Cardinality(hits) = 1
            /\ \A i \in hits : get_info(configs, tid)[i] = c2

C8_Witness == SetTwiceSameId

\* C9: no task ever holds two configs with the same non-empty id.
C9_AtMostOnePerId ==
    \A tid \in DOMAIN configs :
        \A i, j \in 1..Len(configs[tid]) :
            (i /= j /\ IsSome(configs[tid][i].id)) => configs[tid][i].id /= configs[tid][j].id

\* a replacement by id has just happened on one task while another task holds the
\* same anonymous config twice
C9_Witness ==
    /\ SetTwiceSameId
    /\ \E tid \in DOMAIN configs :
          /\ Len(configs[tid]) = 2
          /\ configs[tid][1] = configs[tid][2]
          /\ configs[tid][1].id = None

\* C10: a step that is delete_info(tid, None) leaves get_info(tid) empty and the
\* configs of every other task as they were.
C10_DeleteAll ==
    [][(last'.op = "delete_info" /\ last'.config_id = None) =>
         /\ get_info(configs', Unwrap(last'.task_id)) = <<>>
         /\ \A other \in TaskIds \ {Unwrap(last'.task_id)} :
               MapGet(configs', other) = MapGet(configs, other)]_vars

\* delete_info(tid, None) has run right after a set_info on tid, with configs
\* stored under another task
C10_Witness ==
    /\ last.op = "delete_info" /\ last.config_id = None
    /\ prev.op = "set_info" /\ prev.task_id = last.task_id
    /\ \E other \in DOMAIN configs : Len(configs[other]) > 0


\* the sequence s without its p-th element
Without(s, p) == SubSeq(s, 1, p - 1) \o SubSeq(s, p + 1, Len(s))

\* C11: a step that is delete_info(tid, Some(id)) removes from tid's list exactly the
\* config whose id is id, keeping every other config of tid (those without an id
\* included) in its order, and leaves the configs of every other task as they were;
\* when no config of tid has that id the store is unchanged; the call succeeds.
C11_DeleteById ==
    [][(last'.op = "delete_info" /\ IsSome(last'.config_id)) =>
         LET tid == Unwrap(last'.task_id)
             old == get_info(configs, tid)
             hits == WithId(configs, tid, last'.config_id)
         IN  /\ last'.err = ""
             /\ \A other \in TaskIds \ {tid} :
                   MapGet(configs', other) = MapGet(configs, other)
             /\ IF hits = {} THEN configs' = configs
                ELSE \E p \in hits : get_info(configs', tid) = Without(old, p)]_vars

\* delete_info(tid, Some(id)) has run right after the set_info that stored id under
\* tid, and tid keeps an anonymous config
C11_Witness ==
    /\ last.op = "delete_info" /\ IsSome(last.config_id)
    /\ prev.op = "set_info" /\ prev.task_id = last.task_id
    /\ Unwrap(prev.config).id = last.config_id
    /\ \E i \in 1..Len(get_info(configs, Unwrap(last.task_id))) :
          get_info(configs, Unwrap(last.task_id))[i].id = None
    /\ WithId(configs, Unwrap(last.task_id), last.config_id) = {}

(***************************************************************************)
(* Tasks, messages and events.                                             *)
(***************************************************************************)
Terminal == {"completed", "canceled", "failed", "rejected"}

\* uuid::Uuid::new_v4().to_string(): the k-th UUID generated differs from all others
Uuid(k) == "uuid-" \o ToString(k)

\* Message { message_id, role, task_id, context_id, parts }
Message(message_id, task_id, context_id) ==
    [message_id |-> message_id, role |-> "user", task_id |-> task_id,
     context_id |-> context_id]

\* TaskStatus::new(state): the state alone, no message, no timestamp
TaskStatus_new(state) == [state |-> state, message |-> None, timestamp |-> None]

\* TaskStatusUpdateEvent::new(task_id, context_id, status, final)
TaskStatusUpdateEvent_new(task_id, context_id, status, final) ==
    [kind |-> "status-update", task |-> None, task_id |-> task_id,
     context_id |-> context_id, status |-> status, final |-> final]

\* Result<Event, A2AError>: the items of the stream
Ok_item(event) == [ok |-> TRUE, event |-> event]

\* Event::Task(task)
Event_Task(task) ==
    [kind |-> "task", task |-> Some(task), task_id |-> task.id,
     context_id |-> task.context_id, status |-> task.status, final |-> FALSE]

(***************************************************************************)
(* TaskStore: save is an upsert by primary key, get a lookup by it.        *)
(***************************************************************************)
TaskStore_save(store, task) == MapInsert(store, task.id, task)
TaskStore_get(store, task_id) == MapGet(store, task_id)

\* TaskManager::save_task_event(TaskEvent::Task(task)): the snapshot replaces the
\* current task and is written through to the store
save_task_event(store, task) == TaskStore_save(store, task)

(***************************************************************************)
(* HttpPushNotificationSender                                              *)
(***************************************************************************)
IsSuccess(status) == status = "2xx"

\* a dispatch_notification that never sets the token header
dispatch_notification_no_header(task, url, token, status) ==
    [url |-> url, header |-> None, body |-> task, answer |-> status,
     ok |-> IsSuccess(status)]

\* dispatch_notification: one POST of the task to url, with the token header when
\* the config has a token; true iff the peer answered 2xx
dispatch_notification(task, url, token, status) ==
    [url |-> url, header |-> token, body |-> task, answer |-> status,
     ok |-> IsSuccess(status)]

\* a send_notification that reports an error when a dispatch failed
send_notification_fails_on_failed_dispatch(cfgs, task, fault, respond) ==
    IF fault = "get_info"
    THEN [err |-> "Internal", posts |-> <<>>]
    ELSE LET cs == get_info(cfgs, task.id)
             posts == [i \in 1..Len(cs) |->
                          dispatch_notification(task, cs[i].url, cs[i].token,
                                                respond[cs[i].url])]
         IN  [err |-> IF \E i \in 1..Len(cs) : ~posts[i].ok THEN "Internal" ELSE "",
              posts |-> posts]

\* a send_notification that dispatches one config after the other and stops at the
\* first dispatch that fails
send_notification_stops_at_failure(cfgs, task, fault, respond) ==
    IF fault = "get_info"
    THEN [err |-> "Internal", posts |-> <<>>]
    ELSE LET cs == get_info(cfgs, task.id)
             posts == [i \in 1..Len(cs) |->
                          dispatch_notification(task, cs[i].url, cs[i].token,
                                                respond[cs[i].url])]
             failed == {i \in 1..Len(cs) : ~posts[i].ok}
             stop == IF failed = {} THEN Len(cs)
                     ELSE CHOOSE i \in failed : \A j \in failed : i <= j
         IN  [err |-> "", posts |-> SubSeq(posts, 1, stop)]

\* a send_notification that notifies the configs of every task in the store
send_notification_every_task(cfgs, task, fault, respond) ==
    IF fault = "get_info"
    THEN [err |-> "Internal", posts |-> <<>>]
    ELSE LET cs == IF "t1" \in DOMAIN cfgs /\ "t2" \in DOMAIN cfgs
                   THEN cfgs["t1"] \o cfgs["t2"]
                   ELSE get_info(cfgs, task.id)
         IN  [err |-> "",
              posts |-> [i \in 1..Len(cs) |->
                            dispatch_notification(task, cs[i].url, cs[i].token,
                                                  respond[cs[i].url])]]

\* send_notification: one dispatch per config of task.id, in the store's order;
\* Err only when the config store cannot be read
send_notification(cfgs, task, fault, respond) ==
    IF fault = "get_info"
    THEN [err |-> "Internal", posts |-> <<>>]
    ELSE LET cs == get_info(cfgs, task.id)
         IN  [err |-> "",
              posts |-> [i \in 1..Len(cs) |->
                            dispatch_notification(task, cs[i].url, cs[i].token,
                                                  respond[cs[i].url])]]

(***************************************************************************)
(* DefaultRequestHandler.  Every method maps the handler h, the world      *)
(* w = [tasks, configs, uuid_ctr, stream] and its inputs to a result       *)
(* record: the world after the call and what the call returned.            *)
(***************************************************************************)
Ok(w) ==
    [w |-> w, err |-> "", errmsg |-> "", task |-> None,
     cfgs |-> <<>>, events |-> <<>>, posts |-> <<>>, card |-> None,
     invoked |-> FALSE, trace |-> <<>>]
Err(w, kind, msg) == [Ok(w) EXCEPT !.err = kind, !.errmsg = msg]

NoStoreMsg == "Push notification config store not configured"

\* send_push_notification_if_needed: with a sender, one send_notification whose
\* error is logged and dropped; the POSTs it made and the call it was
send_push_notification_if_needed(h, cfgs, task, fault, respond) ==
    IF h.push_sender
    THEN [posts |-> send_notification(cfgs, task, fault, respond).posts,
          trace |-> <<"send_notification">>]
    ELSE [posts |-> <<>>, trace |-> <<>>]

\* TaskQueryParams { id, history_length }
TaskQueryParams(id, history_length) == [id |-> id, history_length |-> history_length]

\* the store's answer for params.id, as it is: params.history_length is not read
on_get_task(h, w, params, fault) ==
    IF fault = "get" THEN Err(w, "Internal", "Failed to get task")
    ELSE [Ok(w) EXCEPT !.task = TaskStore_get(w.tasks, params.id)]

\* an on_cancel_task that notifies before it saves
on_cancel_task_push_before_save(h, w, id, now, fault, respond) ==
    LET found == TaskStore_get(w.tasks, id)
        task == [Unwrap(found) EXCEPT !.status.state = "canceled",
                                      !.status.timestamp = Some(now)]
        w1 == [w EXCEPT !.tasks = TaskStore_save(w.tasks, task)]
        push == send_push_notification_if_needed(h, w.configs, task, fault, respond)
    IN  IF fault = "get"
        THEN [Err(w, "Internal", "Failed to get task") EXCEPT !.trace = <<"get">>]
        ELSE IF ~IsSome(found) THEN [Ok(w) EXCEPT !.trace = <<"get">>]
        ELSE IF fault = "save"
        THEN [Err(w, "Internal", "Failed to save task")
                EXCEPT !.posts = push.posts,
                       !.trace = <<"get">> \o push.trace \o <<"save">>]
        ELSE [Ok(w1) EXCEPT
                !.task = Some(task),
                !.posts = push.posts,
                !.trace = <<"get">> \o push.trace \o <<"save">>]

\* an on_cancel_task that reports a missing task as an error
on_cancel_task_missing_is_error(h, w, id, now, fault, respond) ==
    LET found == TaskStore_get(w.tasks, id)
        task == [Unwrap(found) EXCEPT !.status.state = "canceled",
                                      !.status.timestamp = Some(now)]
        w1 == [w EXCEPT !.tasks = TaskStore_save(w.tasks, task)]
        push == send_push_notification_if_needed(h, w1.configs, task, fault, respond)
    IN  IF fault = "get"
        THEN [Err(w, "Internal", "Failed to get task") EXCEPT !.trace = <<"get">>]
        ELSE IF ~IsSome(found)
        THEN [Err(w, "TaskNotFound", "Task not found") EXCEPT !.trace = <<"get">>]
        ELSE IF fault = "save"
        THEN [Err(w, "Internal", "Failed to save task") EXCEPT !.trace = <<"get", "save">>]
        ELSE [Ok(w1) EXCEPT
                !.task = Some(task),
                !.posts = push.posts,
                !.trace = <<"get", "save">> \o push.trace]

\* an on_cancel_task that stores a new status, TaskStatus::new(Canceled) stamped
on_cancel_task_new_status(h, w, found, now, fault, respond) ==
    LET task == [Unwrap(found) EXCEPT
                    !.status = [TaskStatus_new("canceled") EXCEPT !.timestamp = Some(now)]]
        w1 == [w EXCEPT !.tasks = TaskStore_save(w.tasks, task)]
        push == send_push_notification_if_needed(h, w1.configs, task, fault, respond)
    IN  IF ~IsSome(found) THEN [Ok(w) EXCEPT !.trace = <<"get">>]
        ELSE IF fault = "save"
        THEN [Err(w, "Internal", "Failed to save task") EXCEPT !.trace = <<"get", "save">>]
        ELSE [Ok(w1) EXCEPT
                !.task = Some(task),
                !.posts = push.posts,
                !.trace = <<"get", "save">> \o push.trace]

\* on_cancel_task from the point where its get has returned found, in the world w
\* of that moment: the task read is stamped, saved and pushed
on_cancel_task_after_get(h, w, found, now, fault, respond) ==
    LET task == [Unwrap(found) EXCEPT !.status.state = "canceled",
                                      !.status.timestamp = Some(now)]
        w1 == [w EXCEPT !.tasks = TaskStore_save(w.tasks, task)]
        push == send_push_notification_if_needed(h, w1.configs, task, fault, respond)
    IN  IF ~IsSome(found) THEN [Ok(w) EXCEPT !.trace = <<"get">>]
        ELSE IF fault = "save"
        THEN [Err(w, "Internal", "Failed to save task") EXCEPT !.trace = <<"get", "save">>]
        ELSE [Ok(w1) EXCEPT
                !.task = Some(task),
                !.posts = push.posts,
                !.trace = <<"get", "save">> \o push.trace]

on_cancel_task(h, w, id, now, fault, respond) ==
    IF fault = "get"
    THEN [Err(w, "Internal", "Failed to get task") EXCEPT !.trace = <<"get">>]
    ELSE on_cancel_task_after_get(h, w, TaskStore_get(w.tasks, id), now, fault, respond)

\* params.configuration.as_ref().and_then(|c| c.push_notification_config.clone())
config_of(params) ==
    IF IsSome(params.configuration)
    THEN Unwrap(params.configuration).push_notification_config
    ELSE None

\* an ids_of that draws a new task id whatever the message carries
ids_of_ignores_message(w, params) ==
    LET m == params.message
        c1 == w.uuid_ctr + 1
        c2 == IF IsSome(m.context_id) THEN c1 ELSE c1 + 1
    IN  [task_id |-> Uuid(c1),
         context_id |-> UnwrapOr(m.context_id, Uuid(c2)),
         uuid_ctr |-> c2]

\* the ids of a request: those of the message, or fresh UUIDs where it has none
ids_of(w, params) ==
    LET m == params.message
        c1 == IF IsSome(m.task_id) THEN w.uuid_ctr ELSE w.uuid_ctr + 1
        c2 == IF IsSome(m.context_id) THEN c1 ELSE c1 + 1
    IN  [task_id |-> UnwrapOr(m.task_id, Uuid(c1)),
         context_id |-> UnwrapOr(m.context_id, Uuid(c2)),
         uuid_ctr |-> c2]

\* the task both message methods build: Working, history = [the message]
working_task(ids, params) ==
    [id |-> ids.task_id, context_id |-> ids.context_id,
     status |-> TaskStatus_new("working"), artifacts |-> None,
     history |-> Some(<<params.message>>), metadata |-> None, kind |-> "task"]

\* an on_message_send that returns the push sender's error to the caller
on_message_send_push_error_fails(h, w, params, fault, respond) ==
    LET ids == ids_of(w, params)
        w1 == [w EXCEPT !.uuid_ctr = ids.uuid_ctr]
        config == config_of(params)
        stores == h.push_config_store /\ IsSome(config)
        w2 == IF stores
              THEN [w1 EXCEPT !.configs = set_info(w1.configs, ids.task_id, Unwrap(config))]
              ELSE w1
        task == working_task(ids, params)
        w3 == [w2 EXCEPT !.tasks = save_task_event(w2.tasks, task)]
        set == IF stores THEN <<"set_info">> ELSE <<>>
        push == send_push_notification_if_needed(h, w3.configs, task, fault, respond)
    IN  IF stores /\ fault = "set_info"
        THEN [Err(w1, "Internal", "Failed to set push config") EXCEPT !.trace = set]
        ELSE IF fault = "save"
        THEN [Err(w2, "Internal", "Failed to save task")
                EXCEPT !.trace = set \o <<"save">>]
        ELSE IF h.push_sender /\ send_notification(w3.configs, task, fault, respond).err /= ""
        THEN [Err(w3, "Internal", "Failed to send push notification")
                EXCEPT !.trace = set \o <<"save">> \o push.trace]
        ELSE [Ok(w3) EXCEPT
                !.task = Some(task),
                !.posts = push.posts,
                !.trace = set \o <<"save">> \o push.trace]

\* an on_message_send that returns the task it built without saving it
on_message_send_unsaved(h, w, params, fault, respond) ==
    LET ids == ids_of(w, params)
        w1 == [w EXCEPT !.uuid_ctr = ids.uuid_ctr]
        config == config_of(params)
        stores == h.push_config_store /\ IsSome(config)
        w2 == IF stores
              THEN [w1 EXCEPT !.configs = set_info(w1.configs, ids.task_id, Unwrap(config))]
              ELSE w1
        task == working_task(ids, params)
        set == IF stores THEN <<"set_info">> ELSE <<>>
        push == send_push_notification_if_needed(h, w2.configs, task, fault, respond)
    IN  IF stores /\ fault = "set_info"
        THEN [Err(w1, "Internal", "Failed to set push config") EXCEPT !.trace = set]
        ELSE [Ok(w2) EXCEPT
                !.task = Some(task),
                !.posts = push.posts,
                !.trace = set \o push.trace]

on_message_send(h, w, params, fault, respond) ==
    LET ids == ids_of(w, params)
        w1 == [w EXCEPT !.uuid_ctr = ids.uuid_ctr]
        config == config_of(params)
        stores == h.push_config_store /\ IsSome(config)
        w2 == IF stores
              THEN [w1 EXCEPT !.configs = set_info(w1.configs, ids.task_id, Unwrap(config))]
              ELSE w1
        task == working_task(ids, params)
        w3 == [w2 EXCEPT !.tasks = save_task_event(w2.tasks, task)]
        set == IF stores THEN <<"set_info">> ELSE <<>>
        push == send_push_notification_if_needed(h, w3.configs, task, fault, respond)
    IN  IF stores /\ fault = "set_info"
        THEN [Err(w1, "Internal", "Failed to set push config") EXCEPT !.trace = set]
        ELSE IF fault = "save"
        THEN [Err(w2, "Internal", "Failed to save task")
                EXCEPT !.trace = set \o <<"save">>]
        ELSE [Ok(w3) EXCEPT
                !.task = Some(task),
                !.posts = push.posts,
                !.trace = set \o <<"save">> \o push.trace]

\* an on_message_send_stream whose stream goes on after the final status update
on_message_send_stream_goes_on(h, w, params, fault) ==
    LET ids == ids_of(w, params)
        w1 == [w EXCEPT !.uuid_ctr = ids.uuid_ctr]
        config == config_of(params)
        stores == h.push_config_store /\ IsSome(config)
        w2 == IF stores
              THEN [w1 EXCEPT !.configs = set_info(w1.configs, ids.task_id, Unwrap(config))]
              ELSE w1
        task == working_task(ids, params)
        items == << Ok_item(Event_Task(task)),
                    Ok_item(TaskStatusUpdateEvent_new(ids.task_id, ids.context_id,
                                                      TaskStatus_new("completed"), TRUE)),
                    Ok_item(Event_Task(task)) >>
    IN  IF stores /\ fault = "set_info"
        THEN Err(w1, "Internal", "Failed to set push config")
        ELSE [Ok([w2 EXCEPT !.stream = [open |-> TRUE, pending |-> items,
                                        task |-> Some(task),
                                        sender |-> h.push_sender,
                                        log |-> <<>>]])
                EXCEPT !.task = Some(task),
                       !.trace = IF stores THEN <<"set_info">> ELSE <<>>]

\* TaskManager::new(Some(task_id), Some(context_id), ..) accepts these ids, and
\* the stream is returned unpolled: nothing is sent before the consumer polls it
on_message_send_stream(h, w, params, fault) ==
    LET ids == ids_of(w, params)
        w1 == [w EXCEPT !.uuid_ctr = ids.uuid_ctr]
        config == config_of(params)
        stores == h.push_config_store /\ IsSome(config)
        w2 == IF stores
              THEN [w1 EXCEPT !.configs = set_info(w1.configs, ids.task_id, Unwrap(config))]
              ELSE w1
        task == working_task(ids, params)
        items == << Ok_item(Event_Task(task)),
                    Ok_item(TaskStatusUpdateEvent_new(ids.task_id, ids.context_id,
                                                      TaskStatus_new("completed"), TRUE)) >>
    IN  IF stores /\ fault = "set_info"
        THEN Err(w1, "Internal", "Failed to set push config")
        ELSE [Ok([w2 EXCEPT !.stream = [open |-> TRUE, pending |-> items,
                                        task |-> Some(task),
                                        sender |-> h.push_sender,
                                        log |-> <<>>]])
                EXCEPT !.task = Some(task),
                       !.trace = IF stores THEN <<"set_info">> ELSE <<>>]

\* the stream's log: which item's push was initiated, which item was delivered
Pushed(n) == [kind |-> "push", n |-> n]
Delivered(n) == [kind |-> "deliver", n |-> n]
IsDelivered(e) == e.kind = "deliver"

\* a poll that hands the push of an item to a detached worker, which starts it
\* only once the following item's push has been started
poll_next_detached_push(w, fault, respond) ==
    LET st == w.stream
        item == Head(st.pending)
        n == Len(SelectSeq(st.log, IsDelivered)) + 1
        pushes == st.sender /\ item.ok
        sent == IF pushes
                THEN send_notification(w.configs, Unwrap(st.task), fault, respond).posts
                ELSE <<>>
        started == IF ~pushes \/ n = 1 THEN <<>>
                   ELSE <<Pushed(n), Pushed(n - 1)>>
    IN  IF st.pending = <<>>
        THEN Ok([w EXCEPT !.stream = NoStream])
        ELSE [Ok([w EXCEPT !.stream.pending = Tail(st.pending),
                           !.stream.log = st.log \o started \o <<Delivered(n)>>])
                EXCEPT !.events = IF item.ok THEN <<item.event>> ELSE <<>>,
                       !.posts = sent,
                       !.trace = (IF pushes THEN <<"send_notification">> ELSE <<>>)
                                 \o <<"yield">>]

\* a poll whose closure yields the item without notifying
poll_next_no_push(w, fault, respond) ==
    LET st == w.stream
        item == Head(st.pending)
        n == Len(SelectSeq(st.log, IsDelivered)) + 1
    IN  IF st.pending = <<>>
        THEN Ok([w EXCEPT !.stream = NoStream])
        ELSE [Ok([w EXCEPT !.stream.pending = Tail(st.pending),
                           !.stream.log = st.log \o <<Delivered(n)>>])
                EXCEPT !.events = IF item.ok THEN <<item.event>> ELSE <<>>,
                       !.trace = <<"yield">>]

\* one poll of the stream: `then` takes the next item and runs its closure to the
\* end - for an Ok item and with a sender, send_notification of the task the closure
\* captured, awaited - and then yields the item; past the last item the stream ends
poll_next(w, fault, respond) ==
    LET st == w.stream
        item == Head(st.pending)
        n == Len(SelectSeq(st.log, IsDelivered)) + 1
        pushes == st.sender /\ item.ok
        sent == IF pushes
                THEN send_notification(w.configs, Unwrap(st.task), fault, respond).posts
                ELSE <<>>
        started == IF pushes THEN <<Pushed(n)>> ELSE <<>>
    IN  IF st.pending = <<>>
        THEN Ok([w EXCEPT !.stream = NoStream])
        ELSE [Ok([w EXCEPT !.stream.pending = Tail(st.pending),
                           !.stream.log = st.log \o started \o <<Delivered(n)>>])
                EXCEPT !.events = IF item.ok THEN <<item.event>> ELSE <<>>,
                       !.posts = sent,
                       !.trace = (IF pushes THEN <<"send_notification">> ELSE <<>>)
                                 \o <<"yield">>]

on_set_task_push_notification_config(h, w, task_id, config) ==
    IF h.push_config_store
    THEN [Ok([w EXCEPT !.configs = set_info(w.configs, task_id, config)])
            EXCEPT !.cfgs = <<config>>]
    ELSE Err(w, "UnsupportedOperation", NoStoreMsg)

\* the requested config id is not read: the first config of the task is returned
on_get_task_push_notification_config(h, w, task_id, config_id) ==
    IF h.push_config_store
    THEN LET cs == get_info(w.configs, task_id)
         IN  IF cs /= <<>> THEN [Ok(w) EXCEPT !.cfgs = <<Head(cs)>>]
             ELSE Err(w, "Internal", "Push notification config not found")
    ELSE Err(w, "UnsupportedOperation", NoStoreMsg)

on_list_task_push_notification_config(h, w, id) ==
    IF h.push_config_store
    THEN [Ok(w) EXCEPT !.cfgs = get_info(w.configs, id)]
    ELSE Err(w, "UnsupportedOperation", NoStoreMsg)

on_delete_task_push_notification_config(h, w, id, push_notification_config_id) ==
    IF h.push_config_store
    THEN Ok([w EXCEPT !.configs = delete_info(w.configs, id,
                                              Some(push_notification_config_id))])
    ELSE Err(w, "UnsupportedOperation", NoStoreMsg)


(***************************************************************************)
(* Calls on the DefaultRequestHandler.  Each action is one request, from   *)
(* its arguments to its return; the stream of message/stream is polled by  *)
(* its consumer in steps of its own.                                       *)
(***************************************************************************)
W == [tasks |-> tasks, configs |-> configs, uuid_ctr |-> uuid_ctr, stream |-> stream]

\* the bounds of the model hold in the world a call leaves
InBounds(w) ==
    /\ w.uuid_ctr <= MaxUuid
    /\ \A tid \in DOMAIN w.configs : Len(w.configs[tid]) <= MaxConfigs

Apply(r) ==
    /\ InBounds(r.w)
    /\ tasks' = r.w.tasks
    /\ configs' = r.w.configs
    /\ uuid_ctr' = r.w.uuid_ctr
    /\ stream' = r.w.stream
    /\ UNCHANGED <<sending, rows, running>>

\* the record of a call: its name, its arguments (args) and its result r
Call(op, args, r) ==
    [op |-> op, task_id |-> args.task_id, config |-> args.config,
     config_id |-> args.config_id, message |-> args.message, fault |-> args.fault,
     err |-> r.err, errmsg |-> r.errmsg, task |-> r.task, cfgs |-> r.cfgs,
     events |-> r.events, posts |-> r.posts, card |-> r.card,
     invoked |-> r.invoked, trace |-> r.trace, listed |-> <<>>,
     history_length |-> args.history_length, auth |-> None]

Args == [task_id |-> None, config |-> None, config_id |-> None, message |-> None,
         fault |-> "none", history_length |-> None]

\* what the peers of the webhooks answer: 2xx, another status, or no answer
Statuses == {"2xx", "non-2xx", "transport-error"}
Urls == {c.url : c \in AllConfigs}

MessageSendParams(message, configuration) ==
    [message |-> message, configuration |-> configuration]
\* MessageSendConfiguration: absent, without a push config, or with one
Configurations(Cfgs) ==
    Opt({[push_notification_config |-> c] : c \in Opt(Cfgs)})

\* chrono::Utc::now(): the clock does not run backwards
Now == clock..MaxClock

OnGetTask(Ids, Lens, Faults) ==
    \E id \in Ids, history_length \in Lens, fault \in Faults :
        LET r == on_get_task(handler, W, TaskQueryParams(id, history_length), fault)
        IN  /\ Apply(r)
            /\ last' = Call("on_get_task",
                            [Args EXCEPT !.task_id = Some(id), !.fault = fault,
                                         !.history_length = history_length], r)
            /\ UNCHANGED <<agent_card, handler, clock, prev>>

OnCancelTask(Ids, Faults, Responds) ==
    \E id \in Ids, fault \in Faults, respond \in Responds, now \in Now :
        LET r == on_cancel_task(handler, W, id, now, fault, respond)
        IN  /\ Apply(r)
            /\ clock' = now
            /\ last' = Call("on_cancel_task",
                            [Args EXCEPT !.task_id = Some(id), !.fault = fault], r)
            /\ UNCHANGED <<agent_card, handler, prev>>

OnMessageSend(Msgs, Cfgs, Faults, Responds) ==
    \E m \in Msgs, conf \in Configurations(Cfgs), fault \in Faults, respond \in Responds :
        LET params == MessageSendParams(m, conf)
            r == on_message_send(handler, W, params, fault, respond)
        IN  /\ Apply(r)
            /\ last' = Call("on_message_send",
                            [Args EXCEPT !.task_id = m.task_id, !.message = Some(m),
                                         !.config = config_of(params),
                                         !.fault = fault], r)
            /\ UNCHANGED <<agent_card, handler, clock, prev>>

OnMessageSendStream(Msgs, Cfgs, Faults) ==
    \E m \in Msgs, conf \in Configurations(Cfgs), fault \in Faults :
        LET params == MessageSendParams(m, conf)
            r == on_message_send_stream(handler, W, params, fault)
        IN  /\ ~stream.open
            /\ Apply(r)
            /\ last' = Call("on_message_send_stream",
                            [Args EXCEPT !.task_id = m.task_id, !.message = Some(m),
                                         !.config = config_of(params),
                                         !.fault = fault], r)
            /\ UNCHANGED <<agent_card, handler, clock, prev>>

\* on_cancel_task up to its first await: task_store.get has returned a task and the
\* call is suspended, holding the task it read (and, for the record, the world it saw)
CancelGet(Ids) ==
    \E id \in Ids :
        LET found == TaskStore_get(tasks, id)
        IN  /\ ~running.active
            /\ IsSome(found)
            /\ running' = [active |-> TRUE, id |-> id, task |-> found, w |-> W]
            /\ last' = Call("get", [Args EXCEPT !.task_id = Some(id)],
                            [Ok(W) EXCEPT !.task = found, !.trace = <<"get">>])
            /\ UNCHANGED <<agent_card, handler, tasks, configs, uuid_ctr, clock, stream,
                           prev, sending, rows>>

\* the suspended on_cancel_task runs on to its return, in the world of now
CancelSave(Responds) ==
    \E respond \in Responds, now \in Now :
        LET r == on_cancel_task_after_get(handler, W, running.task, now, "none", respond)
        IN  /\ running.active
            /\ InBounds(r.w)
            /\ tasks' = r.w.tasks
            /\ configs' = r.w.configs
            /\ uuid_ctr' = r.w.uuid_ctr
            /\ stream' = r.w.stream
            /\ clock' = now
            /\ running' = NoRunning
            /\ last' = Call("on_cancel_task",
                            [Args EXCEPT !.task_id = Some(running.id)], r)
            /\ UNCHANGED <<agent_card, handler, prev, sending, rows>>

\* the consumer polls the stream it holds
PollNext(Faults, Responds) ==
    \E fault \in Faults, respond \in Responds :
        LET r == poll_next(W, fault, respond)
        IN  /\ stream.open
            /\ Apply(r)
            /\ last' = Call("poll_next", [Args EXCEPT !.fault = fault], r)
            /\ UNCHANGED <<agent_card, handler, clock, prev>>

\* the consumer drops the stream (the request is cancelled)
DropStream ==
    /\ stream.open
    /\ stream' = NoStream
    /\ last' = Call("drop", Args, Ok(W))
    /\ UNCHANGED <<agent_card, handler, tasks, configs, uuid_ctr, clock, prev, sending,
                   rows, running>>

OnSetTaskPushNotificationConfig(Ids, Cfgs) ==
    \E id \in Ids, config \in Cfgs :
        LET r == on_set_task_push_notification_config(handler, W, id, config)
        IN  /\ Apply(r)
            /\ last' = Call("on_set_task_push_notification_config",
                            [Args EXCEPT !.task_id = Some(id), !.config = Some(config)], r)
            /\ UNCHANGED <<agent_card, handler, clock, prev>>

OnGetTaskPushNotificationConfig(Ids) ==
    \E id \in Ids, config_id \in Opt(ConfigIds) :
        LET r == on_get_task_push_notification_config(handler, W, id, config_id)
        IN  /\ Apply(r)
            /\ last' = Call("on_get_task_push_notification_config",
                            [Args EXCEPT !.task_id = Some(id), !.config_id = config_id], r)
            /\ UNCHANGED <<agent_card, handler, clock, prev>>

OnListTaskPushNotificationConfig(Ids) ==
    \E id \in Ids :
        LET r == on_list_task_push_notification_config(handler, W, id)
        IN  /\ Apply(r)
            /\ last' = Call("on_list_task_push_notification_config",
                            [Args EXCEPT !.task_id = Some(id)], r)
            /\ UNCHANGED <<agent_card, handler, clock, prev>>

OnDeleteTaskPushNotificationConfig(Ids) ==
    \E id \in Ids, config_id \in ConfigIds :
        LET r == on_delete_task_push_notification_config(handler, W, id, config_id)
        IN  /\ Apply(r)
            /\ last' = Call("on_delete_task_push_notification_config",
                            [Args EXCEPT !.task_id = Some(id),
                                         !.config_id = Some(config_id)], r)
            /\ UNCHANGED <<agent_card, handler, clock, prev>>

(***************************************************************************)
(* Spec: the task methods of a DefaultRequestHandler built over a task     *)
(* store whose writes can fail (SqliteTaskStore) and either nothing else   *)
(* or the in-memory config store and the HTTP sender over it.              *)
(***************************************************************************)
\* AgentCapabilities::new(): nothing advertised
NoCapabilities == AgentCard(None, None, None)

\* the task ids requests name, beside the UUIDs the handler generates
RequestIds == {"t1"}
KnownIds == RequestIds \cup {Uuid(1)}
Messages ==
    {Message(mid, tid, ctx) : mid \in {"m1", "m2"}, tid \in Opt(RequestIds),
                              ctx \in {Some("c1")}}
RequestConfigs == {PushNotificationConfig(Some("a"), "http://h1/", Some("tok"))}
TaskFaults == {"none", "save"}
AllAnswer(status) == [u \in Urls |-> status]
Responds == {AllAnswer("2xx")}

Init ==
    /\ agent_card = NoCapabilities
    /\ handler \in {[push_config_store |-> b, push_sender |-> b] : b \in BOOLEAN}
    /\ tasks = EmptyMap
    /\ configs = EmptyMap
    /\ uuid_ctr = 0
    /\ clock = 0
    /\ stream = NoStream
    /\ last = NoCall
    /\ prev = NoCall
    /\ sending = NoSend
    /\ rows = <<>>
    /\ running = NoRunning

\* the requests of Spec leave one task id to the handler: once a UUID has been
\* drawn, the messages that follow name their task
Named(Msgs) == IF uuid_ctr = 0 THEN Msgs ELSE {m \in Msgs : IsSome(m.task_id)}

Next ==
    \/ OnGetTask(KnownIds, {None}, TaskFaults)
    \/ OnCancelTask(KnownIds, TaskFaults, Responds)
    \/ OnMessageSend(Named(Messages), RequestConfigs, TaskFaults, Responds)
    \/ OnMessageSendStream(Named(Messages), RequestConfigs, TaskFaults)
    \/ PollNext(TaskFaults, Responds)
    \/ DropStream

Spec == Init /\ [][Next]_vars


(***************************************************************************)
(* SpecPush: the task methods of a DefaultRequestHandler wired as in        *)
(* tests/push_integration_test.rs (config store and HTTP sender over it),  *)
(* with webhooks that answer 2xx, another status or not at all, a config   *)
(* store whose read can fail and a task store whose write can fail.        *)
(***************************************************************************)
PushIds == {"t1"}
PushMessages == {Message("m1", Some(id), Some("c1")) : id \in PushIds}
PushConfigs == {c \in AllConfigs : c.id /= Some("b")}
PushFaults == {"none", "save", "get_info"}
AllResponds == [Urls -> Statuses]

InitPush ==
    /\ agent_card = NoCapabilities
    /\ handler = [push_config_store |-> TRUE, push_sender |-> TRUE]
    /\ tasks = EmptyMap
    /\ configs = EmptyMap
    /\ uuid_ctr = 0
    /\ clock = 0
    /\ stream = NoStream
    /\ last = NoCall
    /\ prev = NoCall
    /\ sending = NoSend
    /\ rows = <<>>
    /\ running = NoRunning

NextPush ==
    \/ OnMessageSend(PushMessages, PushConfigs, PushFaults, AllResponds)
    \/ OnCancelTask(PushIds, PushFaults, AllResponds)
    \/ OnGetTask(PushIds, {None}, {"none"})

SpecPush == InitPush /\ [][NextPush]_vars

\* the request of the call last' records, and its outcome had every webhook
\* answered 2xx and the config store been readable
Healthy == AllAnswer("2xx")
SendParams(call) ==
    MessageSendParams(Unwrap(call.message),
                      Some([push_notification_config |-> call.config]))
PushTried(call) ==
    /\ call.fault \in {"none", "get_info"}
    /\ "send_notification" \in {call.trace[i] : i \in 1..Len(call.trace)}

\* C12: a message/send or tasks/cancel whose push sender was invoked returns the same
\* successful result, and leaves the same stored tasks, as it does when every push
\* succeeds - whatever the webhooks answer and whether or not the sender could read
\* the config store.
C12_PushFailuresSwallowed ==
    [][/\ (last'.op = "on_message_send" /\ PushTried(last')) =>
             LET ref == on_message_send(handler, W, SendParams(last'), "none", Healthy)
             IN  /\ last'.err = ""
                 /\ last'.task = ref.task
                 /\ tasks' = ref.w.tasks
       /\ (last'.op = "on_cancel_task" /\ PushTried(last')) =>
             LET ref == on_cancel_task(handler, W, Unwrap(last'.task_id), clock', "none",
                                       Healthy)
             IN  /\ last'.err = ""
                 /\ last'.task = ref.task
                 /\ tasks' = ref.w.tasks]_vars

\* a cancel has succeeded and stored Canceled although a webhook of the task did
\* not answer 2xx
C12_Witness ==
    /\ last.op = "on_cancel_task" /\ PushTried(last)
    /\ \E i \in 1..Len(last.posts) : ~last.posts[i].ok
    /\ last.err = "" /\ IsSome(last.task)
    /\ tasks[Unwrap(last.task_id)].status.state = "canceled"

\* the positions of a call's trace at which it called `what`
At(call, what) == {i \in 1..Len(call.trace) : call.trace[i] = what}

\* C13: in message/send and tasks/cancel the push sender is invoked only after the
\* task store write of that request has succeeded, and is given the task that was
\* written; a request whose write fails returns the error and sends no push.
C13_PushAfterSave ==
    [][last'.op \in {"on_message_send", "on_cancel_task"} =>
         /\ \A i \in At(last', "send_notification") :
               /\ \E j \in At(last', "save") : j < i
               /\ last'.fault /= "save"
               /\ last'.err = ""
               /\ IsSome(last'.task)
               /\ MapGet(tasks', Unwrap(last'.task).id) = last'.task
               /\ \A k \in 1..Len(last'.posts) : last'.posts[k].body = Unwrap(last'.task)
         /\ (last'.fault = "save" /\ At(last', "save") /= {}) =>
               /\ last'.err = "Internal"
               /\ At(last', "send_notification") = {}
               /\ last'.posts = <<>>
               /\ tasks' = tasks]_vars

\* a cancel of a stored task that has a push config failed at the store write
C13_Witness ==
    /\ last.op = "on_cancel_task" /\ last.fault = "save"
    /\ At(last, "save") /= {}
    /\ last.err = "Internal"
    /\ get_info(configs, Unwrap(last.task_id)) /= <<>>
    /\ handler.push_sender

\* C14: a message/send that supplies a push config with a token, for a task that has
\* no config yet, on a handler with a config store and an HTTP sender, makes exactly
\* one POST: to the config's url, with X-A2A-Notification-Token equal to the token
\* and the created task as body; and it returns that task, in state Working.
C14_SendFiresOnePush ==
    [][(/\ last'.op = "on_message_send" /\ last'.fault = "none"
        /\ handler.push_config_store /\ handler.push_sender
        /\ IsSome(last'.config) /\ IsSome(Unwrap(last'.config).token)
        /\ get_info(configs, Unwrap(last'.task_id)) = <<>>) =>
          /\ last'.err = ""
          /\ IsSome(last'.task)
          /\ Unwrap(last'.task).status.state = "working"
          /\ Unwrap(last'.task).id = Unwrap(last'.task_id)
          /\ Len(last'.posts) = 1
          /\ last'.posts[1].url = Unwrap(last'.config).url
          /\ last'.posts[1].header = Unwrap(last'.config).token
          /\ last'.posts[1].body = Unwrap(last'.task)]_vars

\* the first message/send of a task brought a config with a token and one POST
\* was made
C14_Witness ==
    /\ last.op = "on_message_send" /\ last.fault = "none"
    /\ IsSome(last.config) /\ IsSome(Unwrap(last.config).token)
    /\ get_info(configs, Unwrap(last.task_id)) = <<Unwrap(last.config)>>
    /\ Len(last.posts) = 1
    /\ last.posts[1].ok

(***************************************************************************)
(* SpecStream: message/stream on a DefaultRequestHandler with or without   *)
(* the config store and the HTTP sender, and a consumer that polls the     *)
(* returned stream item by item or drops it.                               *)
(***************************************************************************)
StreamFaults == {"none", "get_info"}

InitStream ==
    /\ agent_card = NoCapabilities
    /\ handler \in {[push_config_store |-> b, push_sender |-> b] : b \in BOOLEAN}
    /\ tasks = EmptyMap
    /\ configs = EmptyMap
    /\ uuid_ctr = 0
    /\ clock = 0
    /\ stream = NoStream
    /\ last = NoCall
    /\ prev = NoCall
    /\ sending = NoSend
    /\ rows = <<>>
    /\ running = NoRunning

NextStream ==
    \/ OnMessageSendStream(PushMessages, PushConfigs, {"none", "set_info"})
    \/ PollNext(StreamFaults, AllResponds)
    \/ DropStream

SpecStream == InitStream /\ [][NextStream]_vars

\* the positions of the stream's log with this entry
LogAt(e) == {i \in 1..Len(stream.log) : stream.log[i] = e}
EventNumbers == {stream.log[i].n : i \in 1..Len(stream.log)}

\* C15: for any two events e1 before e2 of a message/stream response, the push
\* triggered by e1 is initiated before the push triggered by e2.
C15_StreamPushOrder ==
    \A e1, e2 \in EventNumbers :
        e1 < e2 =>
            \A i \in LogAt(Pushed(e1)), j \in LogAt(Pushed(e2)) : i < j

\* both events of a response have been pushed
C15_Witness ==
    /\ LogAt(Pushed(1)) /= {}
    /\ LogAt(Pushed(2)) /= {}
    /\ stream.open

SenderIds == {"t1"}
SenderTasks ==
    {working_task([task_id |-> id, context_id |-> "c1"],
                  MessageSendParams(Message("m1", Some(id), Some("c1")), None)) :
        id \in SenderIds}
SenderFaults == {"none", "get_info"}

SendNotification(Tasks, Faults, Peers) ==
    \E task \in Tasks, fault \in Faults, respond \in Peers :
        LET r == send_notification(configs, task, fault, respond)
        IN  /\ last' = [NoCall EXCEPT !.op = "send_notification",
                                      !.task_id = Some(task.id), !.task = Some(task),
                                      !.fault = fault, !.err = r.err,
                                      !.posts = r.posts]
            /\ prev' = last
            /\ UNCHANGED configs
            /\ StoreUnchanged

NextSender ==
    \/ SetInfoOf(SenderIds, AllConfigs)
    \/ SendNotification(SenderTasks, SenderFaults, AllResponds)

SpecSender == InitStore /\ [][NextSender]_vars

\* the last call was a send_notification that could read the config store
Sent == last.op = "send_notification" /\ last.fault = "none"

\* C17: send_notification returns Ok whenever the config store read succeeds,
\* whatever each webhook answered: 2xx, another status, or nothing at all.
C17_SendNotificationOk == Sent => last.err = ""

\* send_notification has returned Ok after two dispatches failed, one with a
\* non-2xx answer and one with a transport error
C17_Witness ==
    /\ Sent /\ last.err = ""
    /\ Len(last.posts) = 2
    /\ \A i \in 1..2 : ~last.posts[i].ok
    /\ {last.posts[i].answer : i \in 1..2} = {"non-2xx", "transport-error"}

\* C18: send_notification(task) makes exactly one POST per config stored under
\* task.id, none when there is none; each POST goes to its config's url with the
\* task as body and carries X-A2A-Notification-Token iff the config has a token; and
\* whether another dispatch failed changes neither that a POST is made nor what it is.
C18_FanOut ==
    Sent =>
        LET cs == get_info(configs, Unwrap(last.task_id))
        IN  /\ Len(last.posts) = Len(cs)
            /\ \A i \in 1..Len(cs) :
                  /\ last.posts[i].url = cs[i].url
                  /\ last.posts[i].body = Unwrap(last.task)
                  /\ IsSome(last.posts[i].header) <=> IsSome(cs[i].token)
                  /\ last.posts[i].header = cs[i].token
                  /\ last.posts[i].ok <=> last.posts[i].answer = "2xx"

\* the dispatch to the first config failed and the second config, which has a
\* token while the first has none, still got its POST
C18_Witness ==
    /\ Sent
    /\ Len(last.posts) = 2
    /\ ~last.posts[1].ok /\ last.posts[2].ok
    /\ last.posts[1].header = None /\ IsSome(last.posts[2].header)

(***************************************************************************)
(* SpecJoin: one send_notification call at the grain of its futures.  The  *)
(* call reads the configs, creates one dispatch future per config and      *)
(* awaits join_all of them: every future is polled, each POST is answered  *)
(* at its peer's pace, and the call returns once join_all is ready.        *)
(***************************************************************************)
\* futures.push(self.dispatch_notification(task, url, token)) for every config
futures_of(cs) ==
    [i \in 1..Len(cs) |->
        [url |-> cs[i].url, token |-> cs[i].token, state |-> "created", post |-> None]]

\* a join that is ready as soon as one of its futures is
join_all_ready_on_first(ds) == \E i \in 1..Len(ds) : ds[i].state = "done"

\* futures::future::join_all(futures).await is ready when every future is
join_all_ready(ds) == \A i \in 1..Len(ds) : ds[i].state = "done"

Started(i) == [kind |-> "start", i |-> i]
Done(i) == [kind |-> "done", i |-> i]
Returned == [kind |-> "return", i |-> 0]

\* send_notification up to its await: get_info, the early returns, the futures
SendBegin(Tasks, Faults) ==
    \E task \in Tasks, fault \in Faults :
        LET cs == get_info(configs, task.id)
            returns == fault = "get_info" \/ cs = <<>>
            call == [NoCall EXCEPT !.op = "send_notification",
                                   !.task_id = Some(task.id), !.task = Some(task),
                                   !.fault = fault]
        IN  /\ ~sending.active
            /\ sending' = [active |-> ~returns, returned |-> returns,
                           task |-> Some(task),
                           dispatches |-> IF returns THEN <<>> ELSE futures_of(cs),
                           log |-> IF returns THEN <<Returned>> ELSE <<>>]
            /\ last' = IF fault = "get_info" THEN [call EXCEPT !.err = "Internal"]
                       ELSE IF returns THEN call
                       ELSE [call EXCEPT !.op = "send_notification.await"]
            /\ prev' = last
            /\ UNCHANGED <<agent_card, handler, tasks, configs, uuid_ctr, clock, stream,
                           rows, running>>

\* join_all polls a future for the first time: its POST leaves
DispatchStart ==
    \E i \in 1..Len(sending.dispatches) :
        /\ sending.active
        /\ sending.dispatches[i].state = "created"
        /\ sending' = [sending EXCEPT !.dispatches[i].state = "in_flight",
                                      !.log = Append(@, Started(i))]
        /\ UNCHANGED <<agent_card, handler, tasks, configs, uuid_ctr, clock, stream,
                       last, prev, rows, running>>

\* the peer of a POST in flight answers, or the transport gives up
DispatchComplete(Answers) ==
    \E i \in 1..Len(sending.dispatches), status \in Answers :
        LET d == sending.dispatches[i]
        IN  /\ sending.active
            /\ d.state = "in_flight"
            /\ sending' = [sending EXCEPT
                              !.dispatches[i].state = "done",
                              !.dispatches[i].post =
                                  Some(dispatch_notification(Unwrap(sending.task), d.url,
                                                             d.token, status)),
                              !.log = Append(@, Done(i))]
            /\ UNCHANGED <<agent_card, handler, tasks, configs, uuid_ctr, clock, stream,
                           last, prev, rows, running>>

\* join_all is ready: the results are looked at and the call returns Ok(())
SendReturn ==
    /\ sending.active
    /\ join_all_ready(sending.dispatches)
    /\ sending' = [sending EXCEPT !.active = FALSE, !.returned = TRUE,
                                  !.log = Append(@, Returned)]
    /\ last' = [last EXCEPT
                  !.op = "send_notification",
                  !.posts = [i \in 1..Len(sending.dispatches) |->
                                IF IsSome(sending.dispatches[i].post)
                                THEN Unwrap(sending.dispatches[i].post)
                                ELSE dispatch_notification(Unwrap(sending.task),
                                         sending.dispatches[i].url,
                                         sending.dispatches[i].token, "transport-error")]]
    /\ prev' = last
    /\ UNCHANGED <<agent_card, handler, tasks, configs, uuid_ctr, clock, stream, rows, running>>

NextJoin ==
    \/ SetInfoOf(SenderIds, RequestConfigs \cup {PushNotificationConfig(None, "http://h2/", None)})
    \/ SendBegin(SenderTasks, SenderFaults)
    \/ DispatchStart
    \/ DispatchComplete({"2xx", "transport-error"})
    \/ SendReturn

SpecJoin == InitStore /\ [][NextJoin]_vars

InFlight == {i \in 1..Len(sending.dispatches) : sending.dispatches[i].state /= "done"}
LogOf(e) == {k \in 1..Len(sending.log) : sending.log[k] = e}

\* C19: the dispatches of a send_notification call overlap - none waits for another
\* to complete before it starts - and when the call returns every one of them has
\* completed, in whatever order the completions came.
C19_ReturnsAfterLastDispatch ==
    /\ sending.returned => InFlight = {}
    /\ \A i \in 1..Len(sending.dispatches) :
          \A k \in LogOf(Returned) : \E j \in LogOf(Done(i)) : j < k
    /\ (sending.active /\ \E i \in 1..Len(sending.dispatches) :
                              sending.dispatches[i].state = "created")
          => ENABLED DispatchStart

\* a call with two dispatches has returned after both were in flight at once and
\* the second completed first
C19_Witness ==
    /\ sending.returned
    /\ sending.log = <<Started(1), Started(2), Done(2), Done(1), Returned>>

(***************************************************************************)
(* SqliteTaskStore: one table, id TEXT PRIMARY KEY; status, artifacts,     *)
(* history and metadata are kept as JSON text.                             *)
(***************************************************************************)
\* serde_json::to_string of a struct: an object with a member for every field
\* that is not an absent Option
to_string(value, optional) ==
    [k \in {f \in DOMAIN value : f \in optional => IsSome(value[f])} |->
        IF k \in optional THEN Unwrap(value[k]) ELSE value[k]]

\* serde_json::from_str into a struct: an Option field without a member is None
from_str(object, fields, optional) ==
    [k \in fields |->
        IF k \in optional
        THEN IF k \in DOMAIN object THEN Some(object[k]) ELSE None
        ELSE object[k]]

StatusFields == {"state", "message", "timestamp"}
StatusOptional == {"message", "timestamp"}
MessageFields == {"message_id", "role", "task_id", "context_id"}
MessageOptional == {"task_id", "context_id"}

history_to_string(h) == [i \in 1..Len(h) |-> to_string(h[i], MessageOptional)]
history_from_str(j) == [i \in 1..Len(j) |-> from_str(j[i], MessageFields, MessageOptional)]

\* the values save binds to (id, context_id, kind, status, artifacts, history, metadata)
row_of(task) ==
    [id |-> task.id, context_id |-> task.context_id, kind |-> task.kind,
     status |-> to_string(task.status, StatusOptional),
     artifacts |-> task.artifacts,
     history |-> IF IsSome(task.history)
                 THEN Some(history_to_string(Unwrap(task.history))) ELSE None,
     metadata |-> task.metadata]

\* the Task get and list build from a row
task_of(row) ==
    [id |-> row.id, context_id |-> row.context_id, kind |-> row.kind,
     status |-> from_str(row.status, StatusFields, StatusOptional),
     artifacts |-> row.artifacts,
     history |-> IF IsSome(row.history)
                 THEN Some(history_from_str(Unwrap(row.history))) ELSE None,
     metadata |-> row.metadata]

\* the rows of the table whose primary key is not id
Others(table, id) == LET other(r) == r.id /= id IN SelectSeq(table, other)

\* a save by plain INSERT, which does not replace the row of the same id
save_insert_only(table, task, fault) ==
    IF fault = "save"
    THEN [rows |-> table, err |-> "Internal"]
    ELSE [rows |-> Append(table, row_of(task)), err |-> ""]

\* an upsert that keeps the old value of a nullable column the new row leaves NULL
save_keeps_old_columns(table, task, fault) ==
    LET new == row_of(task)
        olds == {i \in 1..Len(table) : table[i].id = task.id}
        old == table[CHOOSE i \in olds : TRUE]
        merged == IF olds = {} THEN new
                  ELSE [new EXCEPT !.history = IF IsSome(@) THEN @ ELSE old.history,
                                   !.artifacts = IF IsSome(@) THEN @ ELSE old.artifacts,
                                   !.metadata = IF IsSome(@) THEN @ ELSE old.metadata]
    IN  IF fault = "save"
        THEN [rows |-> table, err |-> "Internal"]
        ELSE [rows |-> Append(Others(table, task.id), merged), err |-> ""]

\* save: INSERT OR REPLACE - the row with the same primary key, if any, is deleted
\* and the new row is inserted, with a rowid above all others
save(table, task, fault) ==
    IF fault = "save"
    THEN [rows |-> table, err |-> "Internal"]
    ELSE [rows |-> Append(Others(table, task.id), row_of(task)), err |-> ""]

\* get: SELECT ... WHERE id = ?, fetch_optional
get(table, task_id) ==
    LET hits == {i \in 1..Len(table) : table[i].id = task_id}
    IN  IF hits = {} THEN None
        ELSE Some(task_of(table[CHOOSE i \in hits : TRUE]))

\* a delete whose statement has no WHERE clause
delete_every_row(table, task_id) == <<>>

\* delete: DELETE FROM ... WHERE id = ?
delete(table, task_id) == Others(table, task_id)

\* list: SELECT ... FROM table, fetch_all
list(table) == [i \in 1..Len(table) |-> task_of(table[i])]

(***************************************************************************)
(* SpecTaskStore: callers save, get, delete and list tasks of a            *)
(* SqliteTaskStore, one statement at a time; a write can fail.             *)
(***************************************************************************)
StoreTasks ==
    {[working_task([task_id |-> id, context_id |-> "c1"],
                   MessageSendParams(Message("m1", Some(id), None), None))
        EXCEPT !.status.state = IF done THEN "completed" ELSE "working",
               !.status.timestamp = IF done THEN Some(0) ELSE None,
               !.history = IF keeps THEN @ ELSE None] :
        id \in TaskIds, done \in BOOLEAN, keeps \in BOOLEAN}

TaskStoreUnchanged ==
    UNCHANGED <<agent_card, handler, tasks, configs, uuid_ctr, clock, stream, sending,
                running>>

Save ==
    \E task \in StoreTasks, fault \in TaskFaults :
        LET r == save(rows, task, fault)
        IN  /\ rows' = r.rows
            /\ last' = [NoCall EXCEPT !.op = "save", !.task_id = Some(task.id),
                                      !.task = Some(task), !.fault = fault,
                                      !.err = r.err]
            /\ prev' = last
            /\ TaskStoreUnchanged

Get ==
    \E task_id \in TaskIds :
        /\ last' = [NoCall EXCEPT !.op = "get", !.task_id = Some(task_id),
                                  !.task = get(rows, task_id)]
        /\ prev' = last
        /\ UNCHANGED rows
        /\ TaskStoreUnchanged

Delete ==
    \E task_id \in TaskIds :
        /\ rows' = delete(rows, task_id)
        /\ last' = [NoCall EXCEPT !.op = "delete", !.task_id = Some(task_id)]
        /\ prev' = last
        /\ TaskStoreUnchanged

List ==
    /\ last' = [NoCall EXCEPT !.op = "list", !.listed = list(rows)]
    /\ prev' = last
    /\ UNCHANGED rows
    /\ TaskStoreUnchanged

NextTaskStore == Save \/ Get \/ Delete \/ List

SpecTaskStore == InitStore /\ [][NextTaskStore]_vars

\* the call was a save that succeeded
Saved(call) == call.op = "save" /\ call.err = ""
RowsOf(table, id) == {i \in 1..Len(table) : table[i].id = id}

\* C20: a save(t) that follows a successful save(t) leaves the table as the first
\* save left it: the same rows in the same order, one row for t.id, and a list of
\* the same length.
C20_UpsertIdempotent ==
    [][(Saved(last) /\ Saved(last') /\ last'.task = last.task) =>
          /\ rows' = rows
          /\ Cardinality(RowsOf(rows', Unwrap(last'.task_id))) = 1
          /\ Len(list(rows')) = Len(list(rows))
          /\ list(rows') = list(rows)]_vars

\* the same task has been saved twice in a row into a table that holds another
\* task as well
C20_Witness ==
    /\ Saved(prev) /\ Saved(last) /\ prev.task = last.task
    /\ Len(rows) = 2
    /\ rows[2].id = Unwrap(last.task_id)

\* C21: after a successful save(t), get(t.id) returns a task equal to t in every
\* field - id, context_id, kind, status, artifacts, history, metadata - whatever row
\* the table held for that id before; nothing of an earlier row survives.
C21_RoundTrip ==
    /\ Saved(last) => get(rows, Unwrap(last.task_id)) = last.task
    /\ (Saved(prev) /\ last.op = "get" /\ last.task_id = prev.task_id) =>
          last.task = prev.task

\* a task without history and timestamp has been saved into a table that holds
\* another task, and the get that followed returned it with both fields absent
C21_Witness ==
    /\ Saved(prev) /\ last.op = "get" /\ last.task_id = prev.task_id
    /\ IsSome(last.task)
    /\ Unwrap(last.task).history = None
    /\ Unwrap(last.task).status.timestamp = None
    /\ Len(rows) = 2

IdsOf(table) == {table[i].id : i \in 1..Len(table)}

\* C22: a delete(id) leaves get(id) = None and a list that is the list before it
\* without the task of that id, every other task as it was; and the list has exactly
\* one entry for every id that was saved and not deleted since.
C22_Delete ==
    [][/\ last'.op = "delete" =>
             LET id == Unwrap(last'.task_id)
                 hits == RowsOf(rows, id)
             IN  /\ get(rows', id) = None
                 /\ \A other \in TaskIds \ {id} : get(rows', other) = get(rows, other)
                 /\ IF hits = {} THEN list(rows') = list(rows)
                    ELSE \E p \in hits : list(rows') = Without(list(rows), p)
                 /\ IdsOf(rows') = IdsOf(rows) \ {id}
       /\ Saved(last') => IdsOf(rows') = IdsOf(rows) \cup {Unwrap(last'.task_id)}
       /\ (last'.op \in {"get", "list"} \/ last'.err /= "") => rows' = rows
       /\ \A i, j \in 1..Len(rows') :
             list(rows')[i].id = list(rows')[j].id => i = j]_vars

\* the task saved last has been deleted and the other task is still listed
C22_Witness ==
    /\ last.op = "delete" /\ Saved(prev) /\ prev.task_id = last.task_id
    /\ Len(list(rows)) = 1
    /\ get(rows, Unwrap(last.task_id)) = None

(***************************************************************************)
(* GRPCHandler: the capability gate in front of the request handler.       *)
(***************************************************************************)
Pass == [err |-> "", errmsg |-> ""]
Deny(kind, msg) == [err |-> kind, errmsg |-> msg]

\* a gate that takes an unset streaming capability for a supported one
ensure_streaming_supported_default_true(card) ==
    IF ~UnwrapOr(card.capabilities.streaming, TRUE)
    THEN Deny("UnsupportedOperation", "Streaming is not supported by the agent")
    ELSE Pass

ensure_streaming_supported(card) ==
    IF ~UnwrapOr(card.capabilities.streaming, FALSE)
    THEN Deny("UnsupportedOperation", "Streaming is not supported by the agent")
    ELSE Pass

\* a gate that reads the streaming capability where it should read push_notifications
ensure_push_supported_reads_streaming(card) ==
    IF ~UnwrapOr(card.capabilities.streaming, FALSE)
    THEN Deny("PushNotificationNotSupported", "")
    ELSE Pass

ensure_push_supported(card) ==
    IF ~UnwrapOr(card.capabilities.push_notifications, FALSE)
    THEN Deny("PushNotificationNotSupported", "")
    ELSE Pass

\* the call reached the request handler
Delegated(r) == [r EXCEPT !.invoked = TRUE]
\* the gate refused it
Refused(w, gate) == Err(w, gate.err, gate.errmsg)

\* RequestHandler::on_resubscribe_to_task: DefaultRequestHandler keeps the trait's
\* method.  The event source it attaches to is not specified; the call either
\* attaches (a stream on which nothing has arrived yet) or is unsupported, and
\* changes no store.
on_resubscribe_to_task(h, w, id, attaches) ==
    IF attaches THEN Ok(w)
    ELSE Err(w, "UnsupportedOperation", "tasks/resubscribe is not supported")

handle_message_send(card, h, w, params, fault, respond) ==
    Delegated(on_message_send(h, w, params, fault, respond))

handle_message_stream(card, h, w, params, fault) ==
    LET gate == ensure_streaming_supported(card)
    IN  IF gate.err /= "" THEN Refused(w, gate)
        ELSE Delegated(on_message_send_stream(h, w, params, fault))

handle_get_task(card, h, w, params, fault) == Delegated(on_get_task(h, w, params, fault))

handle_cancel_task(card, h, w, id, now, fault, respond) ==
    Delegated(on_cancel_task(h, w, id, now, fault, respond))

handle_set_push_notification_config(card, h, w, task_id, config) ==
    LET gate == ensure_push_supported(card)
    IN  IF gate.err /= "" THEN Refused(w, gate)
        ELSE Delegated(on_set_task_push_notification_config(h, w, task_id, config))

\* a get that is gated like the set
handle_get_push_notification_config_gated(card, h, w, task_id, config_id) ==
    LET gate == ensure_push_supported(card)
    IN  IF gate.err /= "" THEN Refused(w, gate)
        ELSE Delegated(on_get_task_push_notification_config(h, w, task_id, config_id))

\* not gated on the push capability
handle_get_push_notification_config(card, h, w, task_id, config_id) ==
    Delegated(on_get_task_push_notification_config(h, w, task_id, config_id))

handle_resubscribe_task(card, h, w, id, attaches) ==
    LET gate == ensure_streaming_supported(card)
    IN  IF gate.err /= "" THEN Refused(w, gate)
        ELSE Delegated(on_resubscribe_to_task(h, w, id, attaches))

\* an extended-card endpoint that is open unless the card says false
handle_get_authenticated_extended_card_default_true(card, w) ==
    IF ~UnwrapOr(card.supports_authenticated_extended_card, TRUE)
    THEN Err(w, "UnsupportedOperation",
             "Authenticated extended card is not supported by this agent")
    ELSE [Ok(w) EXCEPT !.card = Some(card)]

handle_get_authenticated_extended_card(card, w) ==
    IF ~UnwrapOr(card.supports_authenticated_extended_card, FALSE)
    THEN Err(w, "UnsupportedOperation",
             "Authenticated extended card is not supported by this agent")
    ELSE [Ok(w) EXCEPT !.card = Some(card)]

get_agent_card(card, w) == [Ok(w) EXCEPT !.card = Some(card)]

(***************************************************************************)
(* Calls on the GRPCHandler.                                               *)
(***************************************************************************)
HandleMessageSend(Msgs, Cfgs, Faults, Peers) ==
    \E m \in Msgs, conf \in Configurations(Cfgs), fault \in Faults, respond \in Peers :
        LET params == MessageSendParams(m, conf)
            r == handle_message_send(agent_card, handler, W, params, fault, respond)
        IN  /\ Apply(r)
            /\ last' = Call("handle_message_send",
                            [Args EXCEPT !.task_id = m.task_id, !.message = Some(m),
                                         !.config = config_of(params),
                                         !.fault = fault], r)
            /\ UNCHANGED <<agent_card, handler, clock, prev>>

HandleMessageStream(Msgs, Cfgs, Faults) ==
    \E m \in Msgs, conf \in Configurations(Cfgs), fault \in Faults :
        LET params == MessageSendParams(m, conf)
            r == handle_message_stream(agent_card, handler, W, params, fault)
        IN  /\ ~stream.open
            /\ Apply(r)
            /\ last' = Call("handle_message_stream",
                            [Args EXCEPT !.task_id = m.task_id, !.message = Some(m),
                                         !.config = config_of(params),
                                         !.fault = fault], r)
            /\ UNCHANGED <<agent_card, handler, clock, prev>>

HandleGetTask(Ids, Faults) ==
    \E id \in Ids, fault \in Faults :
        LET r == handle_get_task(agent_card, handler, W, TaskQueryParams(id, None), fault)
        IN  /\ Apply(r)
            /\ last' = Call("handle_get_task",
                            [Args EXCEPT !.task_id = Some(id), !.fault = fault], r)
            /\ UNCHANGED <<agent_card, handler, clock, prev>>

HandleCancelTask(Ids, Faults, Peers) ==
    \E id \in Ids, fault \in Faults, respond \in Peers, now \in Now :
        LET r == handle_cancel_task(agent_card, handler, W, id, now, fault, respond)
        IN  /\ Apply(r)
            /\ clock' = now
            /\ last' = Call("handle_cancel_task",
                            [Args EXCEPT !.task_id = Some(id), !.fault = fault], r)
            /\ UNCHANGED <<agent_card, handler, prev>>

HandleSetPushNotificationConfig(Ids, Cfgs) ==
    \E id \in Ids, config \in Cfgs :
        LET r == handle_set_push_notification_config(agent_card, handler, W, id, config)
        IN  /\ Apply(r)
            /\ last' = Call("handle_set_push_notification_config",
                            [Args EXCEPT !.task_id = Some(id), !.config = Some(config)], r)
            /\ UNCHANGED <<agent_card, handler, clock, prev>>

HandleGetPushNotificationConfig(Ids, CfgIds) ==
    \E id \in Ids, config_id \in Opt(CfgIds) :
        LET r == handle_get_push_notification_config(agent_card, handler, W, id, config_id)
        IN  /\ Apply(r)
            /\ last' = Call("handle_get_push_notification_config",
                            [Args EXCEPT !.task_id = Some(id), !.config_id = config_id], r)
            /\ UNCHANGED <<agent_card, handler, clock, prev>>

HandleResubscribeTask(Ids) ==
    \E id \in Ids, attaches \in BOOLEAN :
        LET r == handle_resubscribe_task(agent_card, handler, W, id, attaches)
        IN  /\ Apply(r)
            /\ last' = Call("handle_resubscribe_task",
                            [Args EXCEPT !.task_id = Some(id)], r)
            /\ UNCHANGED <<agent_card, handler, clock, prev>>

HandleGetAuthenticatedExtendedCard ==
    LET r == handle_get_authenticated_extended_card(agent_card, W)
    IN  /\ Apply(r)
        /\ last' = Call("handle_get_authenticated_extended_card", Args, r)
        /\ UNCHANGED <<agent_card, handler, clock, prev>>

GetAgentCard ==
    LET r == get_agent_card(agent_card, W)
    IN  /\ Apply(r)
        /\ last' = Call("get_agent_card", Args, r)
        /\ UNCHANGED <<agent_card, handler, clock, prev>>

(***************************************************************************)
(* SpecAdapter: a GRPCHandler with any agent card, in front of a           *)
(* DefaultRequestHandler over in-memory stores, serving requests on one    *)
(* task id.                                                                *)
(***************************************************************************)
OptBool == Opt(BOOLEAN)
AgentCards == {AgentCard(s, p, x) : s \in OptBool, p \in OptBool, x \in OptBool}
AdapterIds == {"t1"}
AdapterMessages == {Message("m1", Some(id), Some("c1")) : id \in AdapterIds}
AdapterConfigs == {PushNotificationConfig(Some("a"), "http://h1/", Some("tok"))}
NoFaults == {"none"}

InitAdapter ==
    /\ agent_card \in AgentCards
    /\ handler \in {[push_config_store |-> b, push_sender |-> b] : b \in BOOLEAN}
    /\ tasks = EmptyMap
    /\ configs = EmptyMap
    /\ uuid_ctr = 0
    /\ clock = 0
    /\ stream = NoStream
    /\ last = NoCall
    /\ prev = NoCall
    /\ sending = NoSend
    /\ rows = <<>>
    /\ running = NoRunning

NextAdapter ==
    \/ HandleMessageSend(AdapterMessages, AdapterConfigs, NoFaults, Responds)
    \/ HandleMessageStream(AdapterMessages, AdapterConfigs, NoFaults)
    \/ PollNext(NoFaults, Responds)
    \/ DropStream
    \/ HandleGetTask(AdapterIds, NoFaults)
    \/ HandleCancelTask(AdapterIds, NoFaults, Responds)
    \/ HandleSetPushNotificationConfig(AdapterIds, AdapterConfigs)
    \/ HandleGetPushNotificationConfig(AdapterIds, {"a"})
    \/ HandleResubscribeTask(AdapterIds)
    \/ HandleGetAuthenticatedExtendedCard
    \/ GetAgentCard

SpecAdapter == InitAdapter /\ [][NextAdapter]_vars

(***************************************************************************)
(* Capability gates of the GRPCHandler, under SpecAdapter.                 *)
(***************************************************************************)
StreamingOff == ~UnwrapOr(agent_card.capabilities.streaming, FALSE)
PushOff == ~UnwrapOr(agent_card.capabilities.push_notifications, FALSE)
StreamingCalls == {"handle_message_stream", "handle_resubscribe_task"}

\* C4: when capabilities.streaming is false or unset, a handle_message_stream or
\* handle_resubscribe_task call returns UnsupportedOperation("Streaming is not
\* supported by the agent") without invoking the request handler: no push config is
\* stored, no task and no stream is touched, no push is sent and no event is emitted.
C4_StreamingGate ==
    [][(last'.op \in StreamingCalls /\ StreamingOff) =>
          /\ last'.err = "UnsupportedOperation"
          /\ last'.errmsg = "Streaming is not supported by the agent"
          /\ ~last'.invoked
          /\ configs' = configs
          /\ tasks' = tasks
          /\ stream' = stream
          /\ uuid_ctr' = uuid_ctr
          /\ last'.posts = <<>>
          /\ last'.events = <<>>]_vars

\* a streaming-less agent has refused a message/stream that carried a push config
C4_Witness ==
    /\ StreamingOff
    /\ last.op = "handle_message_stream"
    /\ IsSome(last.config)
    /\ last.err = "UnsupportedOperation"
    /\ handler.push_config_store

\* C5: when capabilities.push_notifications is false or unset,
\* handle_set_push_notification_config fails with PushNotificationNotSupported, the
\* push config store is unchanged and on_set_task_push_notification_config is not
\* invoked.
C5_PushSetGate ==
    [][(last'.op = "handle_set_push_notification_config" /\ PushOff) =>
          /\ last'.err = "PushNotificationNotSupported"
          /\ ~last'.invoked
          /\ configs' = configs]_vars

\* a push-less agent that streams and has a config store has refused a set
C5_Witness ==
    /\ PushOff
    /\ agent_card.capabilities.streaming = Some(TRUE)
    /\ handler.push_config_store
    /\ last.op = "handle_set_push_notification_config"
    /\ last.err = "PushNotificationNotSupported"

\* C6: with capabilities.push_notifications = false, a
\* handle_get_push_notification_config call on a task that has at least one stored
\* config succeeds and returns a stored config of that task, whatever the other
\* capabilities of the card.
C6_PushGetNotGated ==
    (/\ last.op = "handle_get_push_notification_config"
     /\ agent_card.capabilities.push_notifications = Some(FALSE)
     /\ Unwrap(last.task_id) \in DOMAIN configs
     /\ configs[Unwrap(last.task_id)] /= <<>>)
    => /\ last.err = ""
       /\ last.invoked
       /\ Len(last.cfgs) = 1
       /\ \E i \in 1..Len(configs[Unwrap(last.task_id)]) :
              configs[Unwrap(last.task_id)][i] = last.cfgs[1]

\* an agent with push_notifications = false has answered a get with a stored config
C6_Witness ==
    /\ last.op = "handle_get_push_notification_config"
    /\ agent_card.capabilities.push_notifications = Some(FALSE)
    /\ "t1" \in DOMAIN configs
    /\ configs["t1"] /= <<>>
    /\ last.cfgs = <<configs["t1"][1]>>

\* C7: handle_get_authenticated_extended_card returns the card exactly when
\* supports_authenticated_extended_card is true and fails with UnsupportedOperation
\* when it is false or unset; get_agent_card always returns the card.
C7_ExtendedCardGate ==
    /\ last.op = "handle_get_authenticated_extended_card" =>
          IF agent_card.supports_authenticated_extended_card = Some(TRUE)
          THEN last.err = "" /\ last.card = Some(agent_card)
          ELSE last.err = "UnsupportedOperation" /\ last.card = None
    /\ last.op = "get_agent_card" =>
          last.err = "" /\ last.card = Some(agent_card)

\* an agent whose card leaves the flag unset has refused the extended card
C7_Witness ==
    /\ last.op = "handle_get_authenticated_extended_card"
    /\ agent_card.supports_authenticated_extended_card = None
    /\ last.err = "UnsupportedOperation"

\* Option<Vec<Message>> as a sequence
history_of(task) == UnwrapOr(task.history, <<>>)
IsPrefix(s, t) == Len(s) <= Len(t) /\ \A i \in 1..Len(s) : s[i] = t[i]

\* C1: once the stored state of a task is terminal (Completed, Canceled, Failed,
\* Rejected), no handler request changes it.
C1_TerminalMonotonicity ==
    [][\A id \in DOMAIN tasks :
          tasks[id].status.state \in Terminal =>
              /\ id \in DOMAIN tasks'
              /\ tasks'[id].status.state = tasks[id].status.state]_vars

\* C2: tasks/cancel on a stored task whose state is terminal fails with
\* TaskNotCancelable.
C2_CancelTerminalFails ==
    [][(/\ last'.op = "on_cancel_task"
        /\ last'.fault = "none"
        /\ Unwrap(last'.task_id) \in DOMAIN tasks
        /\ tasks[Unwrap(last'.task_id)].status.state \in Terminal)
       => last'.err = "TaskNotCancelable"]_vars

\* C3: the history stored for a task before a request is a prefix of the history
\* stored after it.
C3_HistoryAppendOnly ==
    [][\A id \in DOMAIN tasks :
          /\ id \in DOMAIN tasks'
          /\ IsPrefix(history_of(tasks[id]), history_of(tasks'[id]))]_vars

(***************************************************************************)
(* SpecTasks: the task methods of a DefaultRequestHandler with config      *)
(* store and sender, built over a task store that is empty or already      *)
(* holds a task another writer saved with a longer history (as             *)
(* examples/sqlite_persistence_demo.rs does).                              *)
(***************************************************************************)
\* a task saved into the store outside the handler: two messages of history
StoredTask ==
    [id |-> "t2", context_id |-> "c1",
     status |-> [TaskStatus_new("submitted") EXCEPT
                    !.message = Some(Message("m0", Some("t2"), Some("c1")))],
     artifacts |-> None,
     history |-> Some(<< Message("m1", Some("t2"), Some("c1")),
                         Message("m2", Some("t2"), Some("c1")) >>),
     metadata |-> None, kind |-> "task"]

TasksIds == {"t1", "t2"}
TasksMessages == {Message("m1", Some("t1"), Some("c1"))}
TasksConfigs == {PushNotificationConfig(Some("a"), "http://h1/", Some("tok"))}
HistoryLengths == {None, Some(1)}
TasksFaults == {"none", "save"}

InitTasks ==
    /\ agent_card = NoCapabilities
    /\ handler = [push_config_store |-> TRUE, push_sender |-> TRUE]
    /\ tasks \in {EmptyMap, TaskStore_save(EmptyMap, StoredTask)}
    /\ configs = EmptyMap
    /\ uuid_ctr = 0
    /\ clock = 0
    /\ stream = NoStream
    /\ last = NoCall
    /\ prev = NoCall
    /\ sending = NoSend
    /\ rows = <<>>
    /\ running = NoRunning

NextTasks ==
    \/ OnMessageSend(TasksMessages, TasksConfigs, TasksFaults, Responds)
    \/ OnMessageSendStream(TasksMessages, TasksConfigs, {"none"})
    \/ PollNext({"none"}, Responds)
    \/ OnGetTask(TasksIds, HistoryLengths, {"none"})
    \/ OnCancelTask(TasksIds, {"none"}, Responds)

SpecTasks == InitTasks /\ [][NextTasks]_vars

\* C23: tasks/get with history_length = n on a stored task with more than n history
\* messages returns a task with at most n history messages
C23_GetTrimsHistory ==
    (/\ last.op = "on_get_task" /\ last.err = ""
     /\ IsSome(last.task) /\ IsSome(last.history_length)) =>
        Len(history_of(Unwrap(last.task))) <= Unwrap(last.history_length)

\* the other half of C23, which the code keeps: tasks/get changes neither store and
\* sends no push
GetReadOnly ==
    [][last'.op = "on_get_task" =>
          /\ tasks' = tasks /\ configs' = configs
          /\ last'.posts = <<>> /\ last'.trace = <<>>]_vars

\* C25: when message/send returns task T, the store holds T: tasks/get(T.id) on that
\* state returns T, in state Working with the sent message as its history, and so does
\* a tasks/get(T.id) that is the next call
C25_WriteThrough ==
    /\ [](( last.op = "on_message_send" /\ last.err = "") =>
            LET T == Unwrap(last.task)
                got == on_get_task(handler, W, TaskQueryParams(T.id, None), "none")
            IN  /\ got.err = "" /\ got.task = Some(T)
                /\ T.status.state = "working"
                /\ T.history = Some(<<Unwrap(last.message)>>))
    /\ [][(/\ last.op = "on_message_send" /\ last.err = ""
           /\ last'.op = "on_get_task" /\ last'.err = ""
           /\ last'.task_id = Some(Unwrap(last.task).id)) =>
              last'.task = last.task]_vars

\* message/send has returned its task to a store that holds another task, after a
\* cancel had stamped one
C25_Witness ==
    /\ last.op = "on_message_send" /\ last.err = ""
    /\ TaskStore_get(tasks, "t1") = last.task
    /\ clock = 1
    /\ Cardinality(DOMAIN tasks) = 2

\* C27: tasks/get and tasks/cancel for an id the task store does not hold return
\* Ok(None), leave the task store and the config store as they were and send no push
C27_MissingTask ==
    [][(/\ last'.op \in {"on_get_task", "on_cancel_task"}
        /\ last'.fault = "none"
        /\ Unwrap(last'.task_id) \notin DOMAIN tasks) =>
           /\ last'.err = "" /\ last'.task = None
           /\ tasks' = tasks /\ configs' = configs
           /\ last'.posts = <<>>
           /\ \A i \in 1..Len(last'.trace) : last'.trace[i] = "get"]_vars

\* a cancel of an id that has a push config (stored by message/stream) and no task,
\* on a store that holds another task
C27_Witness ==
    /\ last.op = "on_cancel_task" /\ last.err = "" /\ last.task = None
    /\ get_info(configs, Unwrap(last.task_id)) /= <<>>
    /\ Unwrap(last.task_id) \notin DOMAIN tasks
    /\ tasks /= EmptyMap

(***************************************************************************)
(* SpecIds: message/send and message/stream on the same handler, with      *)
(* messages that carry a task_id and a context_id or leave either to the   *)
(* handler; the stream returned is polled to its end.                      *)
(***************************************************************************)
IdsMessages == {Message("m1", tid, ctx) : tid \in Opt({"t1"}), ctx \in Opt({"c1"})}

NextIds ==
    \/ OnMessageSend(IdsMessages, TasksConfigs, {"none"}, Responds)
    \/ OnMessageSendStream(IdsMessages, TasksConfigs, {"none"})
    \/ PollNext({"none"}, Responds)

SpecIds == InitTasks /\ [][NextIds]_vars

\* the ids a task store holds: its task ids and their context ids
StoredIds(store) == DOMAIN store \cup {store[id].context_id : id \in DOMAIN store}

\* C24: message/send and message/stream build the task under the message's task_id
\* and context_id where it carries them; an id it lacks is generated, is in no task of
\* the store, and is the one id of the task created, of the config stored (no other
\* task's configs change), of the task pushed and saved, and of every event of the stream
C24_AutoId ==
    [][/\ (last'.op \in {"on_message_send", "on_message_send_stream"} /\ last'.err = "") =>
            LET m == Unwrap(last'.message)
                T == Unwrap(last'.task)
            IN  /\ IsSome(m.task_id) => T.id = Unwrap(m.task_id)
                /\ IsSome(m.context_id) => T.context_id = Unwrap(m.context_id)
                /\ ~IsSome(m.task_id) => T.id \notin StoredIds(tasks)
                /\ ~IsSome(m.context_id) => T.context_id \notin StoredIds(tasks)
                /\ (~IsSome(m.task_id) /\ ~IsSome(m.context_id)) => T.id /= T.context_id
                /\ IsSome(last'.config) =>
                      \E i \in 1..Len(get_info(configs', T.id)) :
                          get_info(configs', T.id)[i] = Unwrap(last'.config)
                /\ \A other \in (DOMAIN configs \cup DOMAIN configs') \ {T.id} :
                      get_info(configs', other) = get_info(configs, other)
                /\ last'.op = "on_message_send" =>
                      /\ TaskStore_get(tasks', T.id) = Some(T)
                      /\ DOMAIN tasks' = DOMAIN tasks \cup {T.id}
                      /\ \A i \in 1..Len(last'.posts) : last'.posts[i].body.id = T.id
                /\ last'.op = "on_message_send_stream" =>
                      /\ stream'.pending /= <<>>
                      /\ \A i \in 1..Len(stream'.pending) :
                            /\ stream'.pending[i].event.task_id = T.id
                            /\ stream'.pending[i].event.context_id = T.context_id
       /\ (last'.op = "poll_next" /\ last'.events /= <<>>) =>
            /\ last'.events[1].task_id = Unwrap(stream.task).id
            /\ \A i \in 1..Len(last'.posts) :
                  last'.posts[i].body.id = last'.events[1].task_id]_vars

\* a second generated task id: the message lacks task_id and context_id, the store
\* holds other tasks, and the config and the push went to the generated id
C24_Witness ==
    /\ last.op = "on_message_send" /\ last.err = ""
    /\ Unwrap(last.message).task_id = None /\ Unwrap(last.message).context_id = None
    /\ IsSome(last.config)
    /\ Cardinality(DOMAIN tasks) >= 2
    /\ get_info(configs, Unwrap(last.task).id) /= <<>>
    /\ last.posts /= <<>>

\* C26: once the stream of message/stream has delivered its last event, tasks/get on
\* the task id of the event returns the task, in state Completed
C26_StreamPersisted ==
    (last.op = "poll_next" /\ last.events /= <<>> /\ last.events[1].final) =>
        LET params == TaskQueryParams(last.events[1].task_id, None)
            got == on_get_task(handler, W, params, "none").task
        IN  IsSome(got) /\ Unwrap(got).status.state = "completed"

(***************************************************************************)
(* SpecNoStore: a DefaultRequestHandler built without push config store    *)
(* and without sender, DefaultRequestHandler::new(task_store, None, None); *)
(* the requests name push configs.                                         *)
(***************************************************************************)
NoStoreIds == {"t1", "t2"}
NoStoreMessages == {Message("m1", Some(id), Some("c1")) : id \in NoStoreIds}

InitNoStore ==
    /\ agent_card = NoCapabilities
    /\ handler = [push_config_store |-> FALSE, push_sender |-> FALSE]
    /\ tasks = EmptyMap
    /\ configs = EmptyMap
    /\ uuid_ctr = 0
    /\ clock = 0
    /\ stream = NoStream
    /\ last = NoCall
    /\ prev = NoCall
    /\ sending = NoSend
    /\ rows = <<>>
    /\ running = NoRunning

NextNoStore ==
    \/ OnSetTaskPushNotificationConfig(NoStoreIds, TasksConfigs)
    \/ OnGetTaskPushNotificationConfig(NoStoreIds)
    \/ OnListTaskPushNotificationConfig(NoStoreIds)
    \/ OnDeleteTaskPushNotificationConfig(NoStoreIds)
    \/ OnMessageSend(NoStoreMessages, TasksConfigs, {"none"}, Responds)
    \/ OnMessageSendStream(NoStoreMessages, TasksConfigs, {"none"})
    \/ PollNext({"none"}, Responds)

SpecNoStore == InitNoStore /\ [][NextNoStore]_vars

Unsupported == {"UnsupportedOperation", "PushNotificationNotSupported"}
ConfigMethods ==
    {"on_set_task_push_notification_config", "on_get_task_push_notification_config",
     "on_list_task_push_notification_config", "on_delete_task_push_notification_config"}

\* C28: on a handler without push config store, pushNotificationConfig set, get, list
\* and delete fail with UnsupportedOperation or PushNotificationNotSupported, and so do
\* a message/send and a message/stream that supply a push_notification_config
C28_AbsentPushSubsystem ==
    /\ last.op \in ConfigMethods => last.err \in Unsupported
    /\ (last.op \in {"on_message_send", "on_message_send_stream"} /\ IsSome(last.config)) =>
          last.err \in Unsupported

\* the half of C28 the code keeps: the four config methods are refused and change
\* nothing
ConfigMethodsRefused ==
    [][last'.op \in ConfigMethods =>
          /\ last'.err = "UnsupportedOperation" /\ last'.errmsg = NoStoreMsg
          /\ tasks' = tasks /\ configs' = configs]_vars

(***************************************************************************)
(* SpecRace: tasks/cancel and message/send on one task id, on a handler    *)
(* shared by concurrent requests.  on_cancel_task awaits task_store.get    *)
(* and then task_store.save, and nothing holds the task between the two:   *)
(* a message/send (whose one access to the task store is its save) can run *)
(* in between.                                                             *)
(***************************************************************************)
RaceIds == {"t1", "t2"}
RaceMessages == {Message(mid, Some(id), Some("c1")) : mid \in {"m1", "m2"}, id \in RaceIds}

NextRace ==
    \/ OnMessageSend(RaceMessages, {}, {"none"}, Responds)
    \/ CancelGet(RaceIds)
    \/ CancelSave(Responds)

SpecRace == InitPush /\ [][NextRace]_vars

\* C29: when a tasks/cancel returns that had one message/send on the same task id run
\* between its get and its save, the stored tasks are those that cancel-then-send or
\* send-then-cancel leave, run one after the other from the state the cancel started in
C29_WriteSerialization ==
    [][LET id == running.id
           w0 == running.w
           params == SendParams(last)
           now == clock'
           R == AllAnswer("2xx")
           sent == on_message_send(handler, w0, params, "none", R).w
           canceled == on_cancel_task(handler, w0, id, now, "none", R).w
           send_cancel == on_cancel_task(handler, sent, id, now, "none", R).w.tasks
           cancel_send == on_message_send(handler, canceled, params, "none", R).w.tasks
       IN  (/\ running.active /\ ~running'.active
            /\ last.op = "on_message_send" /\ last.err = ""
            /\ last.task_id = Some(id)
            /\ sent.tasks = tasks) =>
               tasks' \in {send_cancel, cancel_send}]_vars

(***************************************************************************)
(* AuthInterceptor (client side).  intercept reads the peer's Agent Card,  *)
(* asks the credential service per scheme-id and returns the kwargs of the *)
(* outbound call.  A requirement (HashMap<String, Vec<String>>) is the set *)
(* of its scheme-ids; kwargs is a map that may hold a "headers" map.       *)
(***************************************************************************)
SchemeIds == {"bearerAuth", "apiKeyAuth"}

\* card.security_schemes: bearerAuth = HTTPAuth(bearer), apiKeyAuth = APIKey in a header
security_schemes ==
    [id \in SchemeIds |->
        IF id = "bearerAuth"
        THEN [kind |-> "HTTPAuth", scheme |-> "bearer", name |-> "", in_ |-> ""]
        ELSE [kind |-> "APIKey", scheme |-> "", name |-> "X-Custom-Key", in_ |-> "Header"]]

\* store.add_credential(scheme_id, credential)
Secret(id) == IF id = "bearerAuth" THEN "my-secret-jwt-token" ELSE "my-api-key"
CredentialStores == {[id \in S |-> Secret(id)] : S \in SUBSET SchemeIds}

\* CredentialService::get_credentials(scheme_id, context)
get_credentials(store, scheme_id) == MapGet(store, scheme_id)

\* the header a scheme puts its credential in
header_of(scheme, credential) ==
    IF scheme.kind = "HTTPAuth"
    THEN [name |-> "Authorization",
          value |-> (IF scheme.scheme = "bearer" THEN "Bearer " ELSE "Basic ")
                    \o credential]
    ELSE [name |-> scheme.name, value |-> credential]

\* an apply_credential that builds the kwargs anew around the one header
apply_credential_fresh_kwargs(kwargs, scheme, credential) ==
    LET h == header_of(scheme, credential)
    IN  MapInsert(EmptyMap, "headers", MapInsert(EmptyMap, h.name, h.value))

\* header mutation: the nested headers map of kwargs, created if absent
apply_credential(kwargs, scheme, credential) ==
    LET headers == UnwrapOr(MapGet(kwargs, "headers"), EmptyMap)
        h == header_of(scheme, credential)
    IN  MapInsert(kwargs, "headers", MapInsert(headers, h.name, h.value))

\* every scheme of the requirement applied (their headers differ: any order)
RECURSIVE apply_all(_, _, _, _)
apply_all(kwargs, requirement, card, store) ==
    IF requirement = {} THEN kwargs
    ELSE LET id == CHOOSE x \in requirement : TRUE
             next == apply_credential(kwargs, card.security_schemes[id],
                                      Unwrap(get_credentials(store, id)))
         IN  apply_all(next, requirement \ {id}, card, store)

\* a requirement is satisfied when every scheme-id in it has a credential
satisfied(requirement, store) ==
    \A id \in requirement : IsSome(get_credentials(store, id))

\* an intercept that applies, of the first requirement, the credentials it finds
intercept_applies_partial(card, store, kwargs) ==
    LET security == UnwrapOr(card.security, <<>>)
    IN  IF security = <<>> THEN kwargs
        ELSE apply_all(kwargs, {id \in security[1] : IsSome(get_credentials(store, id))},
                       card, store)

\* an intercept that applies every requirement that is satisfied
intercept_applies_every_satisfied(card, store, kwargs) ==
    LET security == UnwrapOr(card.security, <<>>)
        ids == UNION {security[i] : i \in {j \in 1..Len(security) :
                                              satisfied(security[j], store)}}
    IN  apply_all(kwargs, ids, card, store)

\* intercept: the first requirement of card.security, in order, whose scheme-ids all
\* have credentials is applied whole; without one the kwargs are returned unchanged
intercept(card, store, kwargs) ==
    LET security == UnwrapOr(card.security, <<>>)
        sat == {i \in 1..Len(security) : satisfied(security[i], store)}
    IN  IF sat = {} THEN kwargs
        ELSE LET first == CHOOSE i \in sat : \A j \in sat : i <= j
             IN  apply_all(kwargs, security[first], card, store)

(***************************************************************************)
(* SpecAuth: intercept on cards with no, one or two requirements over the  *)
(* two schemes of tests/auth_integration_test.rs, with a credential store  *)
(* that holds any of the two credentials.                                  *)
(***************************************************************************)
Requirements == (SUBSET SchemeIds) \ {{}}
Securities ==
    Opt({<<>>} \cup {<<a>> : a \in Requirements}
               \cup {<<a, b>> : a \in Requirements, b \in Requirements})
Kwargs ==
    {EmptyMap, MapInsert(EmptyMap, "headers", EmptyMap),
     MapInsert(EmptyMap, "headers", MapInsert(EmptyMap, "Accept", "application/json")),
     MapInsert(EmptyMap, "url", "http://localhost:8080"),
     MapInsert(MapInsert(EmptyMap, "url", "http://localhost:8080"),
               "headers", MapInsert(EmptyMap, "Accept", "application/json"))}

Intercept ==
    \E security \in Securities, store \in CredentialStores, kwargs \in Kwargs :
        LET card == [security |-> security, security_schemes |-> security_schemes]
        IN  /\ last' = [NoCall EXCEPT
                          !.op = "intercept",
                          !.auth = Some([card |-> card, credentials |-> store,
                                         kwargs |-> kwargs,
                                         result |-> intercept(card, store, kwargs)])]
            /\ UNCHANGED <<agent_card, handler, tasks, configs, uuid_ctr, clock, stream,
                           prev, sending, rows, running>>

NextAuth == Intercept

SpecAuth == InitStore /\ [][NextAuth]_vars

\* the call put the credential of scheme id where tests/auth_integration_test.rs
\* looks for it
Applied(call, id) ==
    LET a == Unwrap(call.auth)
        headers == UnwrapOr(MapGet(a.result, "headers"), EmptyMap)
        name == IF id = "bearerAuth" THEN "Authorization" ELSE "X-Custom-Key"
        value == IF id = "bearerAuth" THEN "Bearer " \o Secret(id) ELSE Secret(id)
    IN  MapGet(headers, name) = Some(value)

\* C30: intercept applies the credentials of the first requirement of card.security,
\* in order, whose scheme-ids all have a credential, and of no other requirement; with
\* no such requirement it returns the kwargs as they came
C30_AuthSelection ==
    last.op = "intercept" =>
        LET a == Unwrap(last.auth)
            security == UnwrapOr(a.card.security, <<>>)
            sat == {i \in 1..Len(security) :
                       \A id \in security[i] : id \in DOMAIN a.credentials}
        IN  IF sat = {} THEN a.result = a.kwargs
            ELSE \E first \in sat :
                    /\ \A j \in sat : first <= j
                    /\ \A id \in SchemeIds : Applied(last, id) <=> id \in security[first]

\* requirements [A, B] with A = {bearerAuth}, B = {apiKeyAuth} and a credential for
\* apiKeyAuth alone: the API key header is set and Authorization is not
C30_Witness ==
    /\ last.op = "intercept"
    /\ Unwrap(last.auth).card.security = Some(<<{"bearerAuth"}, {"apiKeyAuth"}>>)
    /\ DOMAIN Unwrap(last.auth).credentials = {"apiKeyAuth"}
    /\ Applied(last, "apiKeyAuth") /\ ~Applied(last, "bearerAuth")

\* the requirements of the call's card, in order, and those with every credential
SecurityOf(call) == UnwrapOr(Unwrap(call.auth).card.security, <<>>)
HasAll(call, requirement) ==
    \A id \in requirement : id \in DOMAIN Unwrap(call.auth).credentials
HasSome(call, requirement) ==
    \E id \in requirement : id \in DOMAIN Unwrap(call.auth).credentials

\* C31: when card.security is absent or empty, or no requirement has a credential for
\* each of its scheme-ids, intercept returns the kwargs it was given, headers and url
\* included - also when a requirement has some of its credentials
C31_AllOrNothing ==
    (/\ last.op = "intercept"
     /\ \A i \in 1..Len(SecurityOf(last)) : ~HasAll(last, SecurityOf(last)[i])) =>
        Unwrap(last.auth).result = Unwrap(last.auth).kwargs

\* one requirement of two schemes, a credential for one of them, kwargs with a url and
\* a header: returned as they came
C31_Witness ==
    /\ last.op = "intercept"
    /\ SecurityOf(last) = <<{"bearerAuth", "apiKeyAuth"}>>
    /\ HasSome(last, SecurityOf(last)[1]) /\ ~HasAll(last, SecurityOf(last)[1])
    /\ "url" \in DOMAIN Unwrap(last.auth).kwargs
    /\ "headers" \in DOMAIN Unwrap(last.auth).kwargs
    /\ Unwrap(last.auth).result = Unwrap(last.auth).kwargs

\* C32: when a requirement is satisfied, the result has a headers map in which each
\* scheme of the first satisfied requirement has its header (Authorization: Bearer c
\* for HTTPAuth bearer, n: c for APIKey n in Header); every other header and every
\* other kwargs entry is as it was, and the headers map is created when absent
C32_CredentialApplication ==
    (/\ last.op = "intercept"
     /\ \E i \in 1..Len(SecurityOf(last)) : HasAll(last, SecurityOf(last)[i])) =>
        LET a == Unwrap(last.auth)
            sat == {i \in 1..Len(SecurityOf(last)) : HasAll(last, SecurityOf(last)[i])}
            chosen == SecurityOf(last)[CHOOSE i \in sat : \A j \in sat : i <= j]
            before == UnwrapOr(MapGet(a.kwargs, "headers"), EmptyMap)
            after == a.result["headers"]
            set == {IF id = "bearerAuth" THEN "Authorization" ELSE "X-Custom-Key" :
                       id \in chosen}
        IN  /\ DOMAIN a.result = DOMAIN a.kwargs \cup {"headers"}
            /\ \A k \in DOMAIN a.kwargs \ {"headers"} : a.result[k] = a.kwargs[k]
            /\ DOMAIN after = DOMAIN before \cup set
            /\ \A n \in DOMAIN before \ set : after[n] = before[n]
            /\ "bearerAuth" \in chosen =>
                  after["Authorization"] = "Bearer " \o a.credentials["bearerAuth"]
            /\ "apiKeyAuth" \in chosen =>
                  after["X-Custom-Key"] = a.credentials["apiKeyAuth"]

\* both schemes applied to kwargs that had a url and no headers map
C32_Witness ==
    /\ last.op = "intercept"
    /\ SecurityOf(last) = <<{"bearerAuth", "apiKeyAuth"}>>
    /\ DOMAIN Unwrap(last.auth).kwargs = {"url"}
    /\ DOMAIN Unwrap(last.auth).result = {"url", "headers"}
    /\ DOMAIN Unwrap(last.auth).result["headers"] = {"Authorization", "X-Custom-Key"}

\* C33: tasks/cancel on a stored task that is not terminal stores and returns that task
\* with state Canceled and a timestamp; id, context_id, kind, history, artifacts,
\* metadata and status.message are those stored before, and no other task changes
C33_CancelFrame ==
    [][(/\ last'.op = "on_cancel_task" /\ last'.err = ""
        /\ Unwrap(last'.task_id) \in DOMAIN tasks
        /\ tasks[Unwrap(last'.task_id)].status.state \notin Terminal) =>
           LET id == Unwrap(last'.task_id)
               old == tasks[id]
               new == tasks'[id]
           IN  /\ DOMAIN tasks' = DOMAIN tasks
               /\ last'.task = Some(new)
               /\ new.status.state = "canceled"
               /\ IsSome(new.status.timestamp)
               /\ new = [old EXCEPT !.status.state = "canceled",
                                    !.status.timestamp = new.status.timestamp]
               /\ new.status.message = old.status.message
               /\ \A other \in DOMAIN tasks \ {id} : tasks'[other] = tasks[other]]_vars

\* the stored task with two messages of history and a status message was canceled,
\* beside another task
C33_Witness ==
    /\ last.op = "on_cancel_task" /\ last.err = "" /\ IsSome(last.task)
    /\ Len(history_of(Unwrap(last.task))) = 2
    /\ IsSome(Unwrap(last.task).status.message)
    /\ Unwrap(last.task).status.state = "canceled"
    /\ Cardinality(DOMAIN tasks) = 2

\* C34: every push the stream of message/stream dispatches carries the task as it is
\* after the event that triggered it: the state of the task pushed is the state of the
\* event delivered (Completed for the final status update)
C34_StreamPushSnapshot ==
    (last.op = "poll_next" /\ last.events /= <<>>) =>
        \A i \in 1..Len(last.posts) :
            last.posts[i].body.status.state = last.events[1].status.state

\* the event a poll delivered, if it delivered one
Polled(call) == call.op = "poll_next" /\ call.events /= <<>>

\* C35: the stream of message/stream holds, in this order, a Task snapshot in state
\* Working and one status update with final = true and a terminal state, both under the
\* task id and context id of the request; each poll delivers the next of them, the poll
\* after the final event delivers nothing and ends the stream
C35_StreamFiniteOrdered ==
    [][/\ (last'.op = "on_message_send_stream" /\ last'.err = "") =>
            LET T == Unwrap(last'.task)
                items == stream'.pending
            IN  /\ stream'.open /\ Len(items) = 2
                /\ \A i \in 1..2 : /\ items[i].ok
                                   /\ items[i].event.task_id = T.id
                                   /\ items[i].event.context_id = T.context_id
                /\ items[1].event.kind = "task" /\ ~items[1].event.final
                /\ items[1].event.status.state = "working"
                /\ items[2].event.kind = "status-update" /\ items[2].event.final
                /\ items[2].event.status.state \in Terminal
       /\ last'.op = "poll_next" =>
            IF stream.pending = <<>>
            THEN last'.events = <<>> /\ ~stream'.open
            ELSE /\ last'.events = <<Head(stream.pending).event>>
                 /\ stream'.pending = Tail(stream.pending)
       /\ (Polled(last) /\ last.events[1].final /\ last'.op = "poll_next") =>
            last'.events = <<>> /\ ~stream'.open
       /\ (Polled(last) /\ Polled(last')) =>
            /\ last.events[1].kind = "task" /\ last'.events[1].final
            /\ last'.events[1].task_id = last.events[1].task_id
            /\ last'.events[1].context_id = last.events[1].context_id]_vars

\* the poll after the final event: nothing delivered, the stream has ended
C35_Witness ==
    /\ last.op = "poll_next" /\ last.err = ""
    /\ last.events = <<>>
    /\ ~stream.open

(***************************************************************************)
(* SpecConfigs: the four pushNotificationConfig methods of a               *)
(* DefaultRequestHandler with config store, on two tasks and configs with  *)
(* and without ids.                                                        *)
(***************************************************************************)
NextConfigs ==
    \/ OnSetTaskPushNotificationConfig(TaskIds, AllConfigs)
    \/ OnGetTaskPushNotificationConfig(TaskIds)
    \/ OnListTaskPushNotificationConfig(TaskIds)
    \/ OnDeleteTaskPushNotificationConfig(TaskIds)

SpecConfigs == InitPush /\ [][NextConfigs]_vars

\* C36: tasks/pushNotificationConfig/get with a push_notification_config_id returns
\* the config of the task that has this id, never one with another id
C36_GetConfigById ==
    (/\ last.op = "on_get_task_push_notification_config" /\ last.err = ""
     /\ IsSome(last.config_id)) =>
        /\ Len(last.cfgs) = 1
        /\ last.cfgs[1].id = last.config_id

(***************************************************************************)
(* SpecIsolation: the sender over a config store that holds the configs of *)
(* two tasks, each config with a url of its own; configs are set and       *)
(* deleted between the notifications.                                      *)
(***************************************************************************)
IsoConfigs == {c \in AllConfigs : c.token = Some("tok")}
IsoTasks ==
    {working_task([task_id |-> id, context_id |-> "c1"],
                  MessageSendParams(Message("m1", Some(id), Some("c1")), None)) :
        id \in TaskIds}

NextIsolation ==
    \/ SetInfoOf(TaskIds, IsoConfigs)
    \/ DeleteInfo
    \/ SendNotification(IsoTasks, {"none"}, {AllAnswer("2xx")})

SpecIsolation == InitStore /\ [][NextIsolation]_vars

\* C37: send_notification(task) posts the task to the urls of the configs stored under
\* task.id at the time of the call, one post per config, and to no other url; after a
\* delete_info on the task, the url of the config deleted gets no post (none at all
\* when every config of the task was deleted)
C37_PushIsolation ==
    last.op = "send_notification" =>
        LET id == Unwrap(last.task_id)
            cs == get_info(configs, id)
        IN  /\ Len(last.posts) = Len(cs)
            /\ \A i \in 1..Len(cs) : /\ last.posts[i].url = cs[i].url
                                     /\ last.posts[i].body.id = id
            /\ (prev.op = "delete_info" /\ prev.task_id = last.task_id) =>
                  IF prev.config_id = None THEN last.posts = <<>>
                  ELSE \A c \in IsoConfigs :
                          c.id = prev.config_id =>
                              \A i \in 1..Len(last.posts) : last.posts[i].url /= c.url

\* a notification right after a delete_info by id on the task: it went to the one
\* config left, while the other task holds the config with the url deleted here
C37_Witness ==
    /\ last.op = "send_notification" /\ last.task_id = Some("t1")
    /\ prev.op = "delete_info" /\ prev.task_id = Some("t1") /\ prev.config_id = Some("a")
    /\ Len(last.posts) = 1 /\ last.posts[1].url = "http://h2/"
    /\ \E i \in 1..Len(get_info(configs, "t2")) :
          get_info(configs, "t2")[i].url = "http://h1/"

(***************************************************************************)
(* SpecUpsert: concurrent set_info calls on one task.  Each caller runs    *)
(* the body of set_info line by line: it awaits self.configs.write(), and  *)
(* with the guard in hand looks for the position of its id, then replaces  *)
(* or pushes, and drops the guard on return.  `running` holds the callers. *)
(***************************************************************************)
Callers == 1..3
UpsertIds == {"t1"}
Idle == [pc |-> "idle", task_id |-> "", config |-> None, pos |-> None, waiting |-> {}]

\* a write() that hands out its guard while another guard is alive
write_guard_shared(run) == TRUE

\* RwLock::write: the guard is granted when no other caller holds one
write_guard_free(run) == \A c \in DOMAIN run : run[c].pc \notin {"position", "store"}

InitUpsert ==
    /\ agent_card = AgentCard(None, None, None)
    /\ handler = [push_config_store |-> TRUE, push_sender |-> FALSE]
    /\ tasks = EmptyMap
    /\ configs = EmptyMap
    /\ uuid_ctr = 0
    /\ clock = 0
    /\ stream = NoStream
    /\ last = NoCall
    /\ prev = NoCall
    /\ sending = NoSend
    /\ rows = <<>>
    /\ running = [c \in Callers |-> Idle]

UpsertUnchanged ==
    UNCHANGED <<agent_card, handler, tasks, uuid_ctr, clock, stream, sending, rows>>

\* set_info is called: the caller awaits the write guard
SetInfoCall ==
    \E c \in Callers, task_id \in UpsertIds, config \in AllConfigs :
        /\ running[c].pc = "idle"
        /\ running' = [running EXCEPT ![c] = [Idle EXCEPT !.pc = "write",
                                                          !.task_id = task_id,
                                                          !.config = Some(config)]]
        /\ UNCHANGED <<configs, last, prev>>
        /\ UpsertUnchanged

\* let mut configs = self.configs.write().await; entry(task_id).or_insert_with(Vec::new)
SetInfoLock ==
    \E c \in Callers :
        /\ running[c].pc = "write"
        /\ write_guard_free(running)
        /\ running' = [running EXCEPT ![c].pc = "position",
                                      ![c].waiting = {d \in Callers \ {c} :
                                                         running[d].pc = "write"}]
        /\ configs' = MapInsert(configs, running[c].task_id,
                                get_info(configs, running[c].task_id))
        /\ UNCHANGED <<last, prev>>
        /\ UpsertUnchanged

\* if let Some(ref config_id) = config.id { task_configs.iter().position(..) }
SetInfoPosition ==
    \E c \in Callers :
        LET config == Unwrap(running[c].config)
            task_configs == get_info(configs, running[c].task_id)
        IN  /\ running[c].pc = "position"
            /\ running' = [running EXCEPT
                              ![c].pc = "store",
                              ![c].pos = IF IsSome(config.id)
                                         THEN position(task_configs, Unwrap(config.id))
                                         ELSE None]
            /\ UNCHANGED <<configs, last, prev>>
            /\ UpsertUnchanged

\* task_configs[pos] = config; return Ok(())  or  task_configs.push(config); Ok(())
SetInfoStore ==
    \E c \in Callers :
        LET config == Unwrap(running[c].config)
            task_id == running[c].task_id
            task_configs == get_info(configs, task_id)
            pos == running[c].pos
        IN  /\ running[c].pc = "store"
            /\ configs' = IF IsSome(pos)
                          THEN MapInsert(configs, task_id,
                                         [task_configs EXCEPT ![Unwrap(pos)] = config])
                          ELSE MapInsert(configs, task_id, Append(task_configs, config))
            /\ running' = [running EXCEPT ![c].pc = "done"]
            /\ last' = [NoCall EXCEPT !.op = "set_info", !.task_id = Some(task_id),
                                      !.config = Some(config)]
            /\ prev' = last
            /\ UpsertUnchanged

NextUpsert == SetInfoCall \/ SetInfoLock \/ SetInfoPosition \/ SetInfoStore

SpecUpsert == InitUpsert /\ [][NextUpsert]_vars

\* the callers that have returned from set_info(task_id, a config with this id)
Returned_with(task_id, id) ==
    {c \in Callers : /\ running[c].pc = "done" /\ running[c].task_id = task_id
                     /\ Unwrap(running[c].config).id = id}

\* the line-by-line body under the guard is set_info: from the grant of the guard to
\* the return the store changes by exactly set_info(task_id, config)
UpsertIsSetInfo ==
    [][\A c \in Callers :
          (running[c].pc = "store" /\ running'[c].pc = "done") =>
              configs' = set_info(configs, running[c].task_id, Unwrap(running[c].config))]_vars

\* C38: under every interleaving of concurrent set_info calls on one task, once calls
\* with the same config id have returned the task holds exactly one config with that id,
\* equal to the argument of one of them, and the calls without an id have each added
\* their config (as many configs without id as calls returned): none is lost
C38_AtomicUpsert ==
    \A task_id \in UpsertIds :
        /\ \A id \in ConfigIds :
              Returned_with(task_id, Some(id)) /= {} =>
                  /\ Cardinality(WithId(configs, task_id, Some(id))) = 1
                  /\ \A i \in WithId(configs, task_id, Some(id)) :
                        \E c \in Returned_with(task_id, Some(id)) :
                            get_info(configs, task_id)[i] = Unwrap(running[c].config)
        /\ Cardinality(WithId(configs, task_id, None)) =
               Cardinality(Returned_with(task_id, None))

\* all three callers have returned; two carried the same id with different configs, one
\* of them held the guard while the other two were waiting for it, and the third call
\* carried no id
C38_Witness ==
    /\ \A c \in Callers : running[c].pc = "done"
    /\ \E c, d \in Callers :
          /\ Unwrap(running[c].config).id = Some("a")
          /\ Unwrap(running[d].config).id = Some("a")
          /\ running[c].config /= running[d].config
          /\ Cardinality(running[c].waiting) = 2
    /\ Returned_with("t1", None) /= {}
    /\ Len(get_info(configs, "t1")) = 2

(***************************************************************************)
(* SpecOrder: set_info and get_info on the store, and the handler's        *)
(* tasks/pushNotificationConfig/list over the same store.                  *)
(***************************************************************************)
NextOrder ==
    \/ SetInfo
    \/ GetInfo
    \/ OnListTaskPushNotificationConfig(TaskIds)

SpecOrder == InitPush /\ [][NextOrder]_vars

\* C39: a set_info whose id is already stored under the task puts the config at the
\* position of the config it replaces and keeps every other config of the task at its
\* position; a set_info with a new id or no id keeps the list and appends the config at
\* the end; get_info and tasks/pushNotificationConfig/list return the task's configs in
\* the stored order
C39_InsertionOrder ==
    /\ [][last'.op = "set_info" =>
          LET id == Unwrap(last'.task_id)
              config == Unwrap(last'.config)
              old == get_info(configs, id)
              new == get_info(configs', id)
              pos == IF IsSome(config.id) THEN position(old, Unwrap(config.id))
                     ELSE None
          IN  IF IsSome(pos)
              THEN /\ Len(new) = Len(old)
                   /\ new[Unwrap(pos)] = config
                   /\ \A i \in 1..Len(old) : i /= Unwrap(pos) => new[i] = old[i]
              ELSE /\ Len(new) = Len(old) + 1
                   /\ new[Len(new)] = config
                   /\ \A i \in 1..Len(old) : new[i] = old[i]]_vars
    /\ [](last.op \in {"get_info", "on_list_task_push_notification_config"} =>
             /\ last.err = ""
             /\ last.cfgs = get_info(configs, Unwrap(last.task_id)))

\* set_info with id "b" and then set_info with id "a" have run on a task that now holds
\* the new "a" config before the "b" config: "a" was replaced at position 1, in front
\* of the config stored after it
C39_Witness ==
    /\ prev.op = "set_info" /\ prev.task_id = Some("t1")
    /\ Unwrap(prev.config).id = Some("b")
    /\ last.op = "set_info" /\ last.task_id = Some("t1")
    /\ Unwrap(last.config).id = Some("a")
    /\ get_info(configs, "t1") = <<Unwrap(last.config), Unwrap(prev.config)>>

\* the list method has returned two configs, the one without id in front
ListedInOrder ==
    /\ last.op = "on_list_task_push_notification_config"
    /\ Len(last.cfgs) = 2 /\ last.cfgs[1].id = None /\ last.cfgs[2].id = Some("a")

(***************************************************************************)
(* SpecAtomic: message/send with a push config, where the config store's   *)
(* set_info or the task store's save may fail, and the list method to read *)
(* the config store back.                                                  *)
(***************************************************************************)
AtomicFaults == {"none", "set_info", "save"}

NextAtomic ==
    \/ OnMessageSend(PushMessages, AllConfigs, AtomicFaults, Responds)
    \/ OnListTaskPushNotificationConfig(TaskIds)

SpecAtomic == InitPush /\ [][NextAtomic]_vars

\* a message/send whose set_info fails returns that error, leaves the config store and
\* the task store as they were and sends no push
SetInfoFailureClean ==
    [][(last'.op = "on_message_send" /\ last'.fault = "set_info"
        /\ IsSome(last'.config)) =>
          /\ last'.err /= ""
          /\ configs' = configs /\ tasks' = tasks /\ last'.posts = <<>>]_vars

\* C40: a message/send that fails leaves the config store as it was before the request
\* (no push config written by the failed request remains), and one that fails in
\* set_info has saved no task and sent no push
C40_SendErrorAtomic ==
    [][(last'.op = "on_message_send" /\ last'.err /= "") =>
          /\ configs' = configs
          /\ (last'.fault = "set_info" => tasks' = tasks /\ last'.posts = <<>>)]_vars
====
